---- MODULE Spec2Model ----
(***************************************************************************)
(* Model of the fallback orchestrator FallbackLLM (src/fallback.go), of its *)
(* twin FallbackGen (src/unnamed/part_000), of the streaming task of a      *)
(* backend (src/google.go, Google.GenerateStream) and of the client pool of *)
(* Google (src/google.go, NewGoogle, getNextClient, GetModel).             *)
(*                                                                         *)
(* Indices are 1-based here: backend idx of the model is f.llms[idx-1] of  *)
(* the source, so the source's "i > 0" reads "idx > 1".                    *)
(* Model ids are numbers: NoModel (0) is the empty string, Model(idx) the  *)
(* id reported by backend idx's GetModel().                                *)
(***************************************************************************)
EXTENDS Integers, Sequences, FiniteSets, TLC

\* ------------------------------------------------------------------ bounds
MaxBackends == 2
MaxTokens == 1
MaxImages == 1
MaxBytes == 2
MaxCalls == 2
MaxLocations == 2
MaxCallers == 2
MaxOps == 4

MaxMessages == 2

MaxRacers == 2

MaxParts == 2

MaxNested == 2

\* ------------------------------------------------------------------ values
NoModel == 0

Model(idx) == idx

\* a string is two words, a pointer to its bytes and its length: those of model id m
WordsOf(m) == [ptr |-> m, len |-> m]

\* no adapter was called, nothing was built
NoCall == [images |-> <<>>, mimeTypes |-> <<>>, prompt |-> FALSE]

NoRequest == [err |-> "none", parts |-> <<>>]

\* a concurrent call that has not begun
IdleRacer == [pc |-> "idle", idx |-> 0, won |-> 0, todo |-> {}]

\* An error value: kind, the backend it stems from (0: none) and, for an
\* error built with fmt.Errorf("...%v", e), the kind of the error e it embeds.
Err(kind, of, wraps) == [kind |-> kind, of |-> of, wraps |-> wraps]

Nil == Err("nil", 0, "")

\* Generate was not called
NoRun == [called |-> FALSE, response |-> 0, err |-> Nil, log |-> <<>>, errs |-> <<>>,
          model |-> NoModel]

\* the sentinel values context.Canceled and context.DeadlineExceeded
Canceled == Err("Canceled", 0, "")

DeadlineExceeded == Err("DeadlineExceeded", 0, "")

\* the error a backend's synchronous method returns
BackendErr(idx) == Err("backend", idx, "")

\* fmt.Errorf("error in stream: %v", err) of the streaming task: a new error
\* value, whatever err was
StreamErr(idx, cause) == Err("stream", idx, cause)

\* variant of AggregatedErr: the aggregated error leaves the last error out
AggregatedErrDropsLast(lastErr) == Err("LLMFailed", 0, "")

\* fmt.Errorf("LLM failed, last error: %v", lastErr)
AggregatedErr(lastErr) == Err("LLMFailed", lastErr.of, lastErr.kind)

\* errors.New("LLM failed")
LLMFailed == Err("LLMFailedBare", 0, "")

ImageKinds == {"nil", "ok", "bad"}

EndKinds == {"done", "fail", "nil"}

SeqsUpTo(S, n) == UNION {[1..k -> S] : k \in 0..n}

VARIABLES
    llms,           \* f.llms: the behaviour of each backend of the list
    errorCallback,  \* f.errorCallback: TRUE a function, FALSE nil
    currentModel,   \* f.currentModel
    method,         \* the method called
    pc,             \* position of the call
    idx,            \* loop index of the call
    lastErr,        \* local lastErr
    ret,            \* what a synchronous method returned
    events,         \* backend invocations, callback invocations, scope cancellations, in order
    images,         \* image sources of an image call
    nMimeTypes,     \* len(mimeTypes) of GenerateWithImages
    ctxErr,         \* ctx.Err() of the caller's context: "none" while not done
    cancelAt,       \* where the call stood when the caller's context was cancelled
    genCtxErr,      \* genCtx.Err() of each attempt's derived context
    task,           \* position of each attempt's streaming task
    emitted,        \* tokens each attempt's task has put on resultCh
    genDoneCh,      \* per attempt: values buffered in genDoneCh (capacity 1)
    genErrCh,       \* per attempt: values buffered in genErrCh (capacity 1)
    resultLog,      \* values delivered on resultCh
    doneLog,        \* number of values delivered on doneCh
    errLog,         \* values delivered on errCh
    sendVal,        \* the error a pending send on errCh carries
    consumer,       \* TRUE while the consumer receives from resultCh, doneCh and errCh
    imageData,      \* the bytes each image source holds
    srcPos,         \* the bytes read so far from each image source (a source is single-pass)
    imageBufs,      \* imageBuf / imageBufs: the buffer made of each image
    received,       \* per attempt, per image: the reader the backend was handed, the bytes it read
    readLog,        \* the image sources the orchestrator itself has read, in order
    calls,          \* calls made on the orchestrator before the present one
    modelBefore,    \* GetModel() when the present call was made
    succeeded,      \* TRUE when a call before the present one has succeeded
    clients,        \* g.clients, indexed from 0
    locations,      \* g.locations, indexed from 0
    clientIndex,    \* g.clientIndex
    safetySettings, \* g.safetySettings
    newErr,         \* what NewGoogle returned as its error ("none": not called yet)
    sel,            \* per caller of the pool: its position in getNextClient and its local index
    selections,     \* the indices getNextClient has returned, in order of return
    modelLog,       \* the location indices GetModel has reported
    crashed,        \* TRUE when an index out of range has ended the process
    ops,            \* operations started on the pool
    writer,         \* the store g.safetySettings = settings in progress under g.mu.Lock()
    issued,         \* per call: the settings it was issued with, and those stored and in store
    messages,       \* the conversation the caller passes: the role and text of each message
    handedMsgs,     \* per attempt: the conversation the backend was handed
    racers,         \* per concurrent call of Generate: its position, its backend, its stores left
    modelWords,     \* f.currentModel as stored: the pointer word and the length word of the string
    adapter,        \* the adapter whose GenerateWithImages was called ("none": none yet)
    adapterIn,      \* the arguments of that call: images, mimeTypes, whether prompt is non-empty
    request,        \* what the adapter returned early with, or the image parts of its request
    nestedLLMs,     \* the backend list of a FallbackLLM with FallbackLLMs among its backends
    nestedRun,      \* what Generate of that FallbackLLM did and returned
    flatRun         \* the same of a FallbackLLM over the leaf backends of nestedLLMs

imageVars == <<imageData, srcPos, imageBufs, received, readLog>>

raceVars == <<racers, modelWords>>

adapterVars == <<adapter, adapterIn, request>>

nestVars == <<nestedLLMs, nestedRun, flatRun>>

callVars == <<calls, modelBefore, succeeded, raceVars, adapterVars, nestVars>>

msgVars == <<messages, handedMsgs>>

poolVars == <<clients, locations, clientIndex, safetySettings, newErr, sel, selections,
              modelLog, crashed, ops, writer, issued>>

vars == <<llms, errorCallback, currentModel, method, pc, idx, lastErr, ret, events,
          images, nMimeTypes, ctxErr, cancelAt, genCtxErr, task, emitted, genDoneCh,
          genErrCh, resultLog, doneLog, errLog, sendVal, consumer, imageVars, callVars,
          poolVars, msgVars>>

streamVars == <<ctxErr, cancelAt, genCtxErr, task, emitted, genDoneCh, genErrCh,
                resultLog, doneLog, errLog, sendVal, consumer>>

syncVars == <<ret, images, nMimeTypes>>

N == Len(llms)

Backend(ok, ntok, end) == [ok |-> ok, ntok |-> ntok, end |-> end]

Ev(kind, i) == <<kind, i>>

NoRet == [resp |-> 0, err |-> Nil, set |-> FALSE]

Return(resp, err) == [resp |-> resp, err |-> err, set |-> TRUE]

\* the state before a call, but for the backend lists
BeforeCall ==
    /\ errorCallback \in BOOLEAN
    /\ currentModel = NoModel
    /\ method = "none"
    /\ pc = "idle"
    /\ idx = 1
    /\ lastErr = Nil
    /\ ret = NoRet
    /\ events = <<>>
    /\ images = <<>>
    /\ nMimeTypes = 0
    /\ ctxErr = "none"
    /\ cancelAt = [pc |-> "none", idx |-> 0]
    /\ genCtxErr = [i \in 1..N |-> "none"]
    /\ task = [i \in 1..N |-> "none"]
    /\ emitted = [i \in 1..N |-> 0]
    /\ genDoneCh = [i \in 1..N |-> 0]
    /\ genErrCh = [i \in 1..N |-> <<>>]
    /\ resultLog = <<>>
    /\ doneLog = 0
    /\ errLog = <<>>
    /\ sendVal = Nil
    /\ consumer = TRUE
    /\ imageData = <<>>
    /\ srcPos = <<>>
    /\ imageBufs = <<>>
    /\ received = <<>>
    /\ readLog = <<>>
    /\ calls = 0
    /\ modelBefore = NoModel
    /\ succeeded = FALSE
    /\ handedMsgs = <<>>
    /\ racers = [r \in 1..MaxRacers |-> IdleRacer]
    /\ modelWords = WordsOf(NoModel)
    /\ adapter = "none"
    /\ adapterIn = NoCall
    /\ request = NoRequest
    /\ nestedRun = NoRun
    /\ flatRun = NoRun

\* the state of a FallbackLLM after NewFallbackLLM(gens, errorCallback), before a call
Constructed ==
    /\ BeforeCall
    /\ nestedLLMs = <<>>

\* ------------------------------------------------- synchronous methods

\* the context a synchronous call was given is done (ctx.Done() is ready)
Aborted == ctxErr # "none"

\* fn(gen) returns a nil error: the backend succeeds, and it was not called with a
\* context that is done (every backend hands ctx to its client, which then fails)
Ok(i) == llms[i].ok /\ ~Aborted

\* the error fn(gen) returns: the backend's own, or the one it builds from ctx.Err()
CallErr(i) == IF Aborted THEN Err("backend", i, ctxErr) ELSE BackendErr(i)

\* variant of Iter: a success records the result but the loop goes on
IterNoShortCircuit(next) ==
    /\ idx <= N
    /\ IF Ok(idx)
       THEN /\ currentModel' = Model(idx)
            /\ ret' = Return(idx, Nil)
            /\ events' = Append(events, Ev("invoke", idx))
            /\ idx' = idx + 1
            /\ pc' = next
            /\ UNCHANGED lastErr
       ELSE /\ events' = IF errorCallback
                         THEN events \o <<Ev("invoke", idx), Ev("callback", idx)>>
                         ELSE Append(events, Ev("invoke", idx))
            /\ lastErr' = CallErr(idx)
            /\ idx' = idx + 1
            /\ pc' = next
            /\ UNCHANGED <<currentModel, ret>>

\* variant of Iter: the failure of the last backend is not reported to the callback
IterCallbackSkipsLast(next) ==
    /\ idx <= N
    /\ IF Ok(idx)
       THEN /\ currentModel' = Model(idx)
            /\ ret' = Return(idx, Nil)
            /\ events' = Append(events, Ev("invoke", idx))
            /\ pc' = "returned"
            /\ UNCHANGED <<idx, lastErr>>
       ELSE /\ events' = IF errorCallback /\ idx < N
                         THEN events \o <<Ev("invoke", idx), Ev("callback", idx)>>
                         ELSE Append(events, Ev("invoke", idx))
            /\ lastErr' = CallErr(idx)
            /\ idx' = idx + 1
            /\ pc' = next
            /\ UNCHANGED <<currentModel, ret>>

\* one iteration of the loop of generateWithFallback (and of the copy of that loop in
\* GenerateWithMessages): fn(gen), then success or failure
Iter(next) ==
    /\ idx <= N
    /\ IF Ok(idx)
       THEN /\ currentModel' = Model(idx)
            /\ ret' = Return(idx, Nil)
            /\ events' = Append(events, Ev("invoke", idx))
            /\ pc' = "returned"
            /\ UNCHANGED <<idx, lastErr>>
       ELSE /\ events' = IF errorCallback
                         THEN events \o <<Ev("invoke", idx), Ev("callback", idx)>>
                         ELSE Append(events, Ev("invoke", idx))
            /\ lastErr' = CallErr(idx)
            /\ idx' = idx + 1
            /\ pc' = next
            /\ UNCHANGED <<currentModel, ret>>

\* variant of Exhausted: the last backend tried is recorded as the current model
ExhaustedRecordsLast ==
    /\ idx > N
    /\ ret' = Return(0, AggregatedErr(lastErr))
    /\ pc' = "returned"
    /\ currentModel' = Model(idx - 1)
    /\ UNCHANGED <<idx, lastErr, events>>

\* the loop is exhausted: return "", fmt.Errorf("LLM failed, last error: %v", lastErr)
Exhausted ==
    /\ idx > N
    /\ ret' = Return(0, AggregatedErr(lastErr))
    /\ pc' = "returned"
    /\ UNCHANGED <<currentModel, idx, lastErr, events>>

\* ---- image sources, buffers and readers

\* the bytes of image source k when it holds n bytes: byte 1 of image k, byte 2, ...
Bytes(k, n) == [i \in 1..n |-> <<k, i>>]

\* the lengths image sources of the kinds imgs may have: a nil source holds nothing,
\* and a source whose Read fails fails at its first byte
Lengths(imgs) == {d \in [1..Len(imgs) -> 0..MaxBytes] :
                      \A k \in 1..Len(imgs) : imgs[k] # "ok" => d[k] = 0}

\* a nil io.Reader
NilReader == [nil |-> TRUE, src |-> "none", data |-> <<>>, pos |-> 0]

\* bytes.NewReader(b): a reader of its own over b, positioned at the start
NewReader(b) == [nil |-> FALSE, src |-> "buffer", data |-> b, pos |-> 0]

\* the caller's image source k itself, as far as it has been read
Source(k) == IF images[k] = "nil" THEN NilReader
             ELSE [nil |-> FALSE, src |-> "source", data |-> imageData[k], pos |-> srcPos[k]]

\* the bytes a reader yields when it is read to its end
Yields(r) == SubSeq(r.data, r.pos + 1, Len(r.data))

\* a nil *bytes.Buffer
NilBuf == [nil |-> TRUE, bytes |-> <<>>]

\* bufferImage(image): nil for a nil image, the buffer, or the copy error
bufferImage(image) == CASE image = "nil" -> "nil"
                        [] image = "ok" -> "buf"
                        [] OTHER -> "error"

\* the buffer bufferImage returns for a source of kind image that holds bytes
BufOf(image, bytes) == IF bufferImage(image) = "buf" THEN [nil |-> FALSE, bytes |-> bytes]
                       ELSE NilBuf

\* the first image whose buffering fails (Len(imgs) + 1: none does)
FirstBad(imgs) ==
    IF \E k \in 1..Len(imgs) : bufferImage(imgs[k]) = "error"
    THEN CHOOSE k \in 1..Len(imgs) :
             /\ bufferImage(imgs[k]) = "error"
             /\ \A j \in 1..(k - 1) : bufferImage(imgs[j]) # "error"
    ELSE Len(imgs) + 1

\* variant of BufferAll: the copy stops after the first byte of each source
BufferAllFirstByte(imgs, d) ==
    LET j == FirstBad(imgs) IN
    /\ imageData' = [k \in 1..Len(imgs) |-> Bytes(k, d[k])]
    /\ srcPos' = [k \in 1..Len(imgs) |->
                     IF k <= j /\ imgs[k] # "nil" THEN (IF d[k] > 1 THEN 1 ELSE d[k]) ELSE 0]
    /\ imageBufs' = [k \in 1..Len(imgs) |->
                        IF k < j THEN BufOf(imgs[k], Bytes(k, d[k])) ELSE NilBuf]
    /\ readLog' = SelectSeq([k \in 1..Len(imgs) |-> k],
                            LAMBDA k : k <= j /\ imgs[k] # "nil")

\* bufferImage over the images in order, up to the first that fails: io.Copy reads a
\* non-nil source to its end (or to its error)
BufferAll(imgs, d) ==
    LET j == FirstBad(imgs) IN
    /\ imageData' = [k \in 1..Len(imgs) |-> Bytes(k, d[k])]
    /\ srcPos' = [k \in 1..Len(imgs) |-> IF k <= j /\ imgs[k] # "nil" THEN d[k] ELSE 0]
    /\ imageBufs' = [k \in 1..Len(imgs) |->
                        IF k < j THEN BufOf(imgs[k], Bytes(k, d[k])) ELSE NilBuf]
    /\ readLog' = SelectSeq([k \in 1..Len(imgs) |-> k],
                            LAMBDA k : k <= j /\ imgs[k] # "nil")

\* the sources are taken as they are: nothing is read, nothing is buffered
NoBuffering(imgs, d) ==
    /\ imageData' = [k \in 1..Len(imgs) |-> Bytes(k, d[k])]
    /\ srcPos' = [k \in 1..Len(imgs) |-> 0]
    /\ imageBufs' = <<>>
    /\ readLog' = <<>>

\* variant of currentImageReader: the caller's source is handed on as it is
currentImageReaderIsSource(k) == Source(k)

\* currentImageReader of GenerateWithImage, readers[i] of newReadersFromBuffers: a new
\* reader over the buffer's bytes, nil for a nil buffer
currentImageReader(k) == IF imageBufs[k].nil THEN NilReader
                         ELSE NewReader(imageBufs[k].bytes)

\* the methods that hand their backends readers made from buffers
Buffering == {"GenerateWithImage", "GenerateWithImages"}

\* the reader of image k that fn(gen) hands the backend
Handed(k) == IF method \in Buffering THEN currentImageReader(k) ELSE Source(k)

\* how much a backend may read of a reader it is handed: nothing, its first byte, all
ReadAmounts(r) == {c \in {0, 1, Len(Yields(r))} : c <= Len(Yields(r))}

\* fn(gen): the backend is handed one reader per image and reads some of each; what
\* it reads of a caller's source is gone from that source
Attempt ==
    \E rd \in [1..Len(images) -> 0..MaxBytes] :
        /\ \A k \in 1..Len(images) : rd[k] \in ReadAmounts(Handed(k))
        /\ received' = Append(received,
               [k \in 1..Len(images) |-> [reader |-> Handed(k), read |-> rd[k]]])
        /\ srcPos' = [k \in 1..Len(images) |->
               IF Handed(k).src = "source" THEN srcPos[k] + rd[k] ELSE srcPos[k]]
        /\ UNCHANGED <<imageData, imageBufs, readLog>>

\* generateWithFallback of FallbackLLM, and the same function of FallbackGen
generateWithFallback ==
    /\ pc = "generateWithFallback"
    /\ \/ Iter("generateWithFallback") /\ Attempt
       \/ Exhausted /\ UNCHANGED imageVars
    /\ UNCHANGED <<callVars, poolVars>>
    /\ UNCHANGED msgVars
    /\ UNCHANGED <<llms, errorCallback, method, images, nMimeTypes>>
    /\ UNCHANGED streamVars

Generate ==
    /\ pc = "idle"
    /\ method' = "Generate"
    /\ pc' = "generateWithFallback"
    /\ UNCHANGED <<callVars, poolVars>>
    /\ UNCHANGED msgVars
    /\ UNCHANGED <<llms, errorCallback, currentModel, idx, lastErr, ret, events,
                   images, nMimeTypes>>
    /\ UNCHANGED imageVars
    /\ UNCHANGED streamVars

GenerateWithImage ==
    /\ pc = "idle"
    /\ method' = "GenerateWithImage"
    /\ \E image \in ImageKinds : \E d \in Lengths(<<image>>) :
         /\ images' = <<image>>
         /\ BufferAll(<<image>>, d)
         /\ IF bufferImage(image) = "error"
            THEN /\ ret' = Return(0, Err("copyFailed", 0, ""))
                 /\ pc' = "returned"
            ELSE /\ pc' = "generateWithFallback"
                 /\ UNCHANGED ret
    /\ UNCHANGED <<callVars, poolVars>>
    /\ UNCHANGED msgVars
    /\ UNCHANGED <<llms, errorCallback, currentModel, idx, lastErr, events, nMimeTypes,
                   received>>
    /\ UNCHANGED streamVars

\* variant of CountMismatch: the two lengths are not compared
CountMismatchIgnored(imgs, nm) == FALSE

\* len(images) != len(mimeTypes)
CountMismatch(imgs, nm) == Len(imgs) # nm

GenerateWithImages ==
    /\ pc = "idle"
    /\ method' = "GenerateWithImages"
    /\ \E imgs \in SeqsUpTo(ImageKinds, MaxImages), nm \in 0..MaxImages :
       \E d \in Lengths(imgs) :
         /\ images' = imgs
         /\ nMimeTypes' = nm
         /\ IF CountMismatch(imgs, nm)
            THEN /\ ret' = Return(0, Err("mismatch", 0, ""))
                 /\ pc' = "returned"
                 /\ NoBuffering(imgs, d)
            ELSE /\ BufferAll(imgs, d)
                 /\ IF \E k \in 1..Len(imgs) : bufferImage(imgs[k]) = "error"
                    THEN /\ ret' = Return(0, Err("bufferFailed", 0, "copyFailed"))
                         /\ pc' = "returned"
                    ELSE /\ pc' = "generateWithFallback"
                         /\ UNCHANGED ret
    /\ UNCHANGED <<callVars, poolVars>>
    /\ UNCHANGED msgVars
    /\ UNCHANGED <<llms, errorCallback, currentModel, idx, lastErr, events, received>>
    /\ UNCHANGED streamVars

\* variant of Conversation: the backend is handed the messages last to first
ConversationReversed == [k \in 1..Len(messages) |-> messages[Len(messages) + 1 - k]]

\* the argument of gen.GenerateWithMessages(ctx, messages): the caller's slice itself.
\* The backends range over it by value and write to none of its elements.
Conversation == messages

\* GenerateWithMessages carries its own copy of the loop; each element of messages
\* may hold an image source (Message.Image), and messages is what every backend gets
GenerateWithMessages ==
    /\ \/ /\ pc = "idle"
          /\ method' = "GenerateWithMessages"
          /\ pc' = "GenerateWithMessages"
          /\ \E imgs \in SeqsUpTo(ImageKinds, MaxImages) : \E d \in Lengths(imgs) :
               /\ images' = imgs
               /\ NoBuffering(imgs, d)
          /\ UNCHANGED <<currentModel, idx, lastErr, ret, events, received, handedMsgs>>
       \/ /\ pc = "GenerateWithMessages"
          /\ \/ /\ Iter("GenerateWithMessages") /\ Attempt
                /\ handedMsgs' = Append(handedMsgs, Conversation)
             \/ Exhausted /\ UNCHANGED <<imageVars, handedMsgs>>
          /\ UNCHANGED <<method, images>>
    /\ UNCHANGED <<callVars, poolVars, messages>>
    /\ UNCHANGED <<llms, errorCallback, nMimeTypes>>
    /\ UNCHANGED streamVars

\* ---- FallbackGen, the orchestrator over LLMGen backends

\* GenerateFromImage: the closure hands image itself to each backend
GenerateFromImage ==
    /\ pc = "idle"
    /\ method' = "GenerateFromImage"
    /\ pc' = "generateWithFallback"
    /\ \E image \in ImageKinds : \E d \in Lengths(<<image>>) :
         /\ images' = <<image>>
         /\ NoBuffering(<<image>>, d)
    /\ UNCHANGED <<callVars, poolVars>>
    /\ UNCHANGED msgVars
    /\ UNCHANGED <<llms, errorCallback, currentModel, idx, lastErr, ret, events,
                   nMimeTypes, received>>
    /\ UNCHANGED streamVars

\* GenerateFromImages: the closure hands images and mimeTypes themselves to each
\* backend; their lengths are not compared here
GenerateFromImages ==
    /\ pc = "idle"
    /\ method' = "GenerateFromImages"
    /\ pc' = "generateWithFallback"
    /\ \E imgs \in SeqsUpTo(ImageKinds, MaxImages), nm \in 0..MaxImages :
       \E d \in Lengths(imgs) :
         /\ images' = imgs
         /\ nMimeTypes' = nm
         /\ NoBuffering(imgs, d)
    /\ UNCHANGED <<callVars, poolVars>>
    /\ UNCHANGED msgVars
    /\ UNCHANGED <<llms, errorCallback, currentModel, idx, lastErr, ret, events, received>>
    /\ UNCHANGED streamVars

\* GenerateFromChat carries its own copy of the loop, as GenerateWithMessages does
GenerateFromChat ==
    /\ \/ /\ pc = "idle"
          /\ method' = "GenerateFromChat"
          /\ pc' = "GenerateFromChat"
          /\ \E imgs \in SeqsUpTo(ImageKinds, MaxImages) : \E d \in Lengths(imgs) :
               /\ images' = imgs
               /\ NoBuffering(imgs, d)
          /\ UNCHANGED <<currentModel, idx, lastErr, ret, events, received, handedMsgs>>
       \/ /\ pc = "GenerateFromChat"
          /\ \/ /\ Iter("GenerateFromChat") /\ Attempt
                /\ handedMsgs' = Append(handedMsgs, Conversation)
             \/ Exhausted /\ UNCHANGED <<imageVars, handedMsgs>>
          /\ UNCHANGED <<method, images>>
    /\ UNCHANGED <<callVars, poolVars, messages>>
    /\ UNCHANGED <<llms, errorCallback, nMimeTypes>>
    /\ UNCHANGED streamVars

\* g.mu is not held for writing
NoWriter == [on |-> FALSE, settings |-> 0]

\* no Google pool is part of the run
NoGoogle ==
    /\ clients = <<>>
    /\ locations = <<>>
    /\ clientIndex = 0
    /\ safetySettings = 0
    /\ newErr = "none"
    /\ sel = <<>>
    /\ selections = <<>>
    /\ modelLog = <<>>
    /\ crashed = FALSE
    /\ ops = 0
    /\ writer = NoWriter
    /\ issued = <<>>

\* Message{Role, Content}
Message(role, text) == [role |-> role, text |-> text]

\* the conversations a caller passes: up to MaxMessages messages of either speaker
Conversations ==
    SeqsUpTo({Message("user", "question"), Message("assistant", "answer")}, MaxMessages)

InitSync ==
    /\ llms \in SeqsUpTo({Backend(ok, 0, "done") : ok \in BOOLEAN}, MaxBackends)
    /\ Constructed
    /\ NoGoogle
    /\ messages \in Conversations

NextSync ==
    \/ Generate
    \/ GenerateWithImage
    \/ GenerateWithImages
    \/ GenerateWithMessages
    \/ generateWithFallback
    \/ GenerateFromImage
    \/ GenerateFromImages
    \/ GenerateFromChat

SpecSync == InitSync /\ [][NextSync]_vars

\* ------------------------------------------------- GenerateStream

CLEAR == [src |-> 0, n |-> 0]

Token(i, j) == [src |-> i, n |-> j]

\* ctx.Done() is ready
CtxDone == ctxErr # "none"

\* genCtx.Done() of attempt i is ready
GenCtxDone(i) == genCtxErr[i] # "none"

\* variant of ErrOfCtx: every end of the context is reported as context.Canceled
ErrOfCtxCanceledOnly(e) == Canceled

ErrOfCtx(e) == IF e = "DeadlineExceeded" THEN DeadlineExceeded ELSE Canceled

\* variant of cancel: the derived context is left as it is
cancelNothing(i) == genCtxErr

\* cancel() of attempt i's derived context: the first cause of the end stays its Err()
cancel(i) == [genCtxErr EXCEPT ![i] = IF @ = "none" THEN "Canceled" ELSE @]

\* where the loop of GenerateStream stands when it reaches index i
LoopPc(i) == IF i > N THEN "final"
             ELSE IF i > 1 THEN "clear"
             ELSE "check"

GenerateStream ==
    /\ pc = "idle"
    /\ method' = "GenerateStream"
    /\ pc' = LoopPc(1)
    /\ UNCHANGED <<callVars, poolVars>>
    /\ UNCHANGED msgVars
    /\ UNCHANGED <<llms, errorCallback, currentModel, idx, lastErr, events>>
    /\ UNCHANGED syncVars
    /\ UNCHANGED imageVars
    /\ UNCHANGED streamVars

\* select { case resultCh <- "[CLEAR]": ; case <-ctx.Done(): errCh <- ctx.Err(); return }
SendClear ==
    /\ pc = "clear"
    /\ \/ /\ consumer
          /\ resultLog' = Append(resultLog, CLEAR)
          /\ pc' = "check"
          /\ UNCHANGED sendVal
       \/ /\ CtxDone
          /\ sendVal' = ErrOfCtx(ctxErr)
          /\ pc' = "sendErr"
          /\ UNCHANGED resultLog
    /\ UNCHANGED <<callVars, poolVars>>
    /\ UNCHANGED msgVars
    /\ UNCHANGED <<llms, errorCallback, currentModel, method, idx, lastErr, events>>
    /\ UNCHANGED syncVars
    /\ UNCHANGED imageVars
    /\ UNCHANGED <<ctxErr, cancelAt, genCtxErr, task, emitted, genDoneCh, genErrCh,
                   doneLog, errLog, consumer>>

\* variant of CheckCtx: the attempt is started without looking at ctx.Done()
CheckCtxSkipped ==
    /\ pc = "check"
    /\ pc' = "spawn"
    /\ UNCHANGED sendVal
    /\ UNCHANGED <<callVars, poolVars>>
    /\ UNCHANGED msgVars
    /\ UNCHANGED <<llms, errorCallback, currentModel, method, idx, lastErr, events>>
    /\ UNCHANGED syncVars
    /\ UNCHANGED imageVars
    /\ UNCHANGED <<ctxErr, cancelAt, genCtxErr, task, emitted, genDoneCh, genErrCh,
                   resultLog, doneLog, errLog, consumer>>

\* select { case <-ctx.Done(): errCh <- ctx.Err(); return; default: ... }
CheckCtx ==
    /\ pc = "check"
    /\ IF CtxDone
       THEN /\ sendVal' = ErrOfCtx(ctxErr)
            /\ pc' = "sendErr"
       ELSE /\ pc' = "spawn"
            /\ UNCHANGED sendVal
    /\ UNCHANGED <<callVars, poolVars>>
    /\ UNCHANGED msgVars
    /\ UNCHANGED <<llms, errorCallback, currentModel, method, idx, lastErr, events>>
    /\ UNCHANGED syncVars
    /\ UNCHANGED imageVars
    /\ UNCHANGED <<ctxErr, cancelAt, genCtxErr, task, emitted, genDoneCh, genErrCh,
                   resultLog, doneLog, errLog, consumer>>

\* genCtx, cancel := context.WithCancel(ctx); the two channels; go gen.GenerateStream(genCtx, ...)
StartAttempt ==
    /\ pc = "spawn"
    /\ genCtxErr' = [genCtxErr EXCEPT ![idx] = ctxErr]
    /\ task' = [task EXCEPT ![idx] = "top"]
    /\ events' = Append(events, Ev("start", idx))
    /\ pc' = "wait"
    /\ UNCHANGED <<callVars, poolVars>>
    /\ UNCHANGED msgVars
    /\ UNCHANGED <<llms, errorCallback, currentModel, method, idx, lastErr>>
    /\ UNCHANGED syncVars
    /\ UNCHANGED imageVars
    /\ UNCHANGED <<ctxErr, cancelAt, emitted, genDoneCh, genErrCh, resultLog, doneLog,
                   errLog, sendVal, consumer>>

\* case <-genDoneCh: cancel(); f.currentModel = gen.GetModel(); then doneCh <- true
OnGenDone ==
    /\ pc = "wait"
    /\ genDoneCh[idx] > 0
    /\ genDoneCh' = [genDoneCh EXCEPT ![idx] = 0]
    /\ genCtxErr' = cancel(idx)
    /\ events' = Append(events, Ev("cancel", idx))
    /\ currentModel' = Model(idx)
    /\ pc' = "sendDone"
    /\ UNCHANGED <<callVars, poolVars>>
    /\ UNCHANGED msgVars
    /\ UNCHANGED <<llms, errorCallback, method, idx, lastErr>>
    /\ UNCHANGED syncVars
    /\ UNCHANGED imageVars
    /\ UNCHANGED <<ctxErr, cancelAt, task, emitted, genErrCh, resultLog, doneLog, errLog,
                   sendVal, consumer>>

\* case err := <-genErrCh: cancel(); then by err: context.Canceled, another error, nil
OnGenErr ==
    /\ pc = "wait"
    /\ genErrCh[idx] # <<>>
    /\ LET err == Head(genErrCh[idx]) IN
         /\ genErrCh' = [genErrCh EXCEPT ![idx] = Tail(@)]
         /\ genCtxErr' = cancel(idx)
         /\ IF err = Canceled
            THEN /\ sendVal' = err
                 /\ pc' = "sendErr"
                 /\ events' = Append(events, Ev("cancel", idx))
                 /\ UNCHANGED <<idx, lastErr>>
            ELSE IF err # Nil
                 THEN /\ lastErr' = err
                      /\ UNCHANGED sendVal
                      /\ IF errorCallback
                         THEN /\ events' = events \o <<Ev("cancel", idx), Ev("callback", idx)>>
                              /\ idx' = idx + 1
                              /\ pc' = LoopPc(idx + 1)
                         ELSE \* f.errorCallback(...) on a nil function value
                              /\ events' = Append(events, Ev("cancel", idx))
                              /\ pc' = "panicked"
                              /\ UNCHANGED idx
                 ELSE /\ pc' = "waitGenDone"
                      /\ events' = Append(events, Ev("cancel", idx))
                      /\ UNCHANGED <<idx, lastErr, sendVal>>
    /\ UNCHANGED <<callVars, poolVars>>
    /\ UNCHANGED msgVars
    /\ UNCHANGED <<llms, errorCallback, currentModel, method>>
    /\ UNCHANGED syncVars
    /\ UNCHANGED imageVars
    /\ UNCHANGED <<ctxErr, cancelAt, task, emitted, genDoneCh, resultLog, doneLog, errLog,
                   consumer>>

\* case <-ctx.Done(): cancel(); errCh <- ctx.Err(); return
OnCtxDone ==
    /\ pc = "wait"
    /\ CtxDone
    /\ genCtxErr' = cancel(idx)
    /\ events' = Append(events, Ev("cancel", idx))
    /\ sendVal' = ErrOfCtx(ctxErr)
    /\ pc' = "sendErr"
    /\ UNCHANGED <<callVars, poolVars>>
    /\ UNCHANGED msgVars
    /\ UNCHANGED <<llms, errorCallback, currentModel, method, idx, lastErr>>
    /\ UNCHANGED syncVars
    /\ UNCHANGED imageVars
    /\ UNCHANGED <<ctxErr, cancelAt, task, emitted, genDoneCh, genErrCh, resultLog,
                   doneLog, errLog, consumer>>

\* the nil-error branch: <-genDoneCh, then doneCh <- true
WaitGenDone ==
    /\ pc = "waitGenDone"
    /\ genDoneCh[idx] > 0
    /\ genDoneCh' = [genDoneCh EXCEPT ![idx] = 0]
    /\ pc' = "sendDone"
    /\ UNCHANGED <<callVars, poolVars>>
    /\ UNCHANGED msgVars
    /\ UNCHANGED <<llms, errorCallback, currentModel, method, idx, lastErr, events>>
    /\ UNCHANGED syncVars
    /\ UNCHANGED imageVars
    /\ UNCHANGED <<ctxErr, cancelAt, genCtxErr, task, emitted, genErrCh, resultLog,
                   doneLog, errLog, sendVal, consumer>>

\* doneCh <- true; return  (a bare send: it completes when the consumer receives)
SendDone ==
    /\ pc = "sendDone"
    /\ consumer
    /\ doneLog' = doneLog + 1
    /\ pc' = "returned"
    /\ UNCHANGED <<callVars, poolVars>>
    /\ UNCHANGED msgVars
    /\ UNCHANGED <<llms, errorCallback, currentModel, method, idx, lastErr, events>>
    /\ UNCHANGED syncVars
    /\ UNCHANGED imageVars
    /\ UNCHANGED <<ctxErr, cancelAt, genCtxErr, task, emitted, genDoneCh, genErrCh,
                   resultLog, errLog, sendVal, consumer>>

\* variant of SendErr: the error is sent and the call does not return
SendErrAgain ==
    /\ pc = "sendErr"
    /\ consumer
    /\ errLog' = Append(errLog, sendVal)
    /\ pc' = "sendErr"
    /\ UNCHANGED <<callVars, poolVars>>
    /\ UNCHANGED msgVars
    /\ UNCHANGED <<llms, errorCallback, currentModel, method, idx, lastErr, events>>
    /\ UNCHANGED syncVars
    /\ UNCHANGED imageVars
    /\ UNCHANGED <<ctxErr, cancelAt, genCtxErr, task, emitted, genDoneCh, genErrCh,
                   resultLog, doneLog, sendVal, consumer>>

\* errCh <- ctx.Err() / errCh <- err; return  (a bare send)
SendErr ==
    /\ pc = "sendErr"
    /\ consumer
    /\ errLog' = Append(errLog, sendVal)
    /\ pc' = "returned"
    /\ UNCHANGED <<callVars, poolVars>>
    /\ UNCHANGED msgVars
    /\ UNCHANGED <<llms, errorCallback, currentModel, method, idx, lastErr, events>>
    /\ UNCHANGED syncVars
    /\ UNCHANGED imageVars
    /\ UNCHANGED <<ctxErr, cancelAt, genCtxErr, task, emitted, genDoneCh, genErrCh,
                   resultLog, doneLog, sendVal, consumer>>

\* the error sent when the loop is exhausted
finalErr == IF lastErr # Nil THEN AggregatedErr(lastErr) ELSE LLMFailed

\* select { case errCh <- finalErr: ; case <-ctx.Done(): }
SendFinalErr ==
    /\ pc = "final"
    /\ \/ /\ consumer
          /\ errLog' = Append(errLog, finalErr)
       \/ /\ CtxDone
          /\ UNCHANGED errLog
    /\ pc' = "returned"
    /\ UNCHANGED <<callVars, poolVars>>
    /\ UNCHANGED msgVars
    /\ UNCHANGED <<llms, errorCallback, currentModel, method, idx, lastErr, events>>
    /\ UNCHANGED syncVars
    /\ UNCHANGED imageVars
    /\ UNCHANGED <<ctxErr, cancelAt, genCtxErr, task, emitted, genDoneCh, genErrCh,
                   resultLog, doneLog, sendVal, consumer>>

\* the process is alive: a panic of the orchestrator ends every goroutine
Alive == pc # "panicked"

\* ---- the streaming task of attempt i (the goroutine of Google.GenerateStream)

\* top of the loop: select { case <-ctx.Done(): errCh <- ctx.Err(); return; default: }
TaskTop(i) ==
    /\ Alive
    /\ task[i] = "top"
    /\ IF GenCtxDone(i)
       THEN /\ Len(genErrCh[i]) < 1
            /\ genErrCh' = [genErrCh EXCEPT ![i] = Append(@, ErrOfCtx(genCtxErr[i]))]
            /\ task' = [task EXCEPT ![i] = "ended"]
       ELSE /\ task' = [task EXCEPT ![i] = "next"]
            /\ UNCHANGED genErrCh
    /\ UNCHANGED <<callVars, poolVars>>
    /\ UNCHANGED msgVars
    /\ UNCHANGED <<llms, errorCallback, currentModel, method, pc, idx, lastErr, events>>
    /\ UNCHANGED syncVars
    /\ UNCHANGED imageVars
    /\ UNCHANGED <<ctxErr, cancelAt, genCtxErr, emitted, genDoneCh, resultLog, doneLog,
                   errLog, sendVal, consumer>>

\* a terminal signal of the task: select { case ch <- v: ; case <-ctx.Done(): }; return
SignalDone(i) ==
    \/ /\ genDoneCh[i] < 1
       /\ genDoneCh' = [genDoneCh EXCEPT ![i] = 1]
    \/ /\ GenCtxDone(i)
       /\ UNCHANGED genDoneCh

SignalErr(i, err) ==
    \/ /\ Len(genErrCh[i]) < 1
       /\ genErrCh' = [genErrCh EXCEPT ![i] = Append(@, err)]
    \/ /\ GenCtxDone(i)
       /\ UNCHANGED genErrCh

\* variant of TaskNext: a failing backend signals its error before its last token
\* and goes on to send that token
TaskNextFailsEarly(i) ==
    /\ Alive
    /\ task[i] = "next"
    /\ \/ /\ emitted[i] < llms[i].ntok
          /\ llms[i].end # "fail"
          /\ task' = [task EXCEPT ![i] = "sendTok"]
          /\ UNCHANGED <<genDoneCh, genErrCh>>
       \/ /\ emitted[i] = llms[i].ntok
          /\ llms[i].end = "done"
          /\ SignalDone(i)
          /\ task' = [task EXCEPT ![i] = "ended"]
          /\ UNCHANGED genErrCh
       \/ /\ emitted[i] <= llms[i].ntok
          /\ llms[i].end = "fail"
          /\ SignalErr(i, StreamErr(i, "provider"))
          /\ task' = [task EXCEPT ![i] = IF emitted[i] < llms[i].ntok THEN "sendTok" ELSE "ended"]
          /\ UNCHANGED genDoneCh
       \/ /\ emitted[i] = llms[i].ntok
          /\ llms[i].end = "nil"
          /\ Len(genErrCh[i]) < 1
          /\ genErrCh' = [genErrCh EXCEPT ![i] = Append(@, Nil)]
          /\ task' = [task EXCEPT ![i] = "afterNil"]
          /\ UNCHANGED genDoneCh
       \/ /\ GenCtxDone(i)
          /\ SignalErr(i, StreamErr(i, genCtxErr[i]))
          /\ task' = [task EXCEPT ![i] = "ended"]
          /\ UNCHANGED genDoneCh
    /\ UNCHANGED <<callVars, poolVars>>
    /\ UNCHANGED msgVars
    /\ UNCHANGED <<llms, errorCallback, currentModel, method, pc, idx, lastErr, events>>
    /\ UNCHANGED syncVars
    /\ UNCHANGED imageVars
    /\ UNCHANGED <<ctxErr, cancelAt, genCtxErr, emitted, resultLog, doneLog, errLog,
                   sendVal, consumer>>

\* resp, err := iter.Next() and what the task does with it
TaskNext(i) ==
    /\ Alive
    /\ task[i] = "next"
    /\ \/ \* a response with a text part
          /\ emitted[i] < llms[i].ntok
          /\ task' = [task EXCEPT ![i] = "sendTok"]
          /\ UNCHANGED <<genDoneCh, genErrCh>>
       \/ \* iterator.Done
          /\ emitted[i] = llms[i].ntok
          /\ llms[i].end = "done"
          /\ SignalDone(i)
          /\ task' = [task EXCEPT ![i] = "ended"]
          /\ UNCHANGED genErrCh
       \/ \* an error of the provider
          /\ emitted[i] = llms[i].ntok
          /\ llms[i].end = "fail"
          /\ SignalErr(i, StreamErr(i, "provider"))
          /\ task' = [task EXCEPT ![i] = "ended"]
          /\ UNCHANGED genDoneCh
       \/ \* a backend whose error channel yields nil before its done signal
          /\ emitted[i] = llms[i].ntok
          /\ llms[i].end = "nil"
          /\ Len(genErrCh[i]) < 1
          /\ genErrCh' = [genErrCh EXCEPT ![i] = Append(@, Nil)]
          /\ task' = [task EXCEPT ![i] = "afterNil"]
          /\ UNCHANGED genDoneCh
       \/ \* the request was aborted because genCtx is done
          /\ GenCtxDone(i)
          /\ SignalErr(i, StreamErr(i, genCtxErr[i]))
          /\ task' = [task EXCEPT ![i] = "ended"]
          /\ UNCHANGED genDoneCh
    /\ UNCHANGED <<callVars, poolVars>>
    /\ UNCHANGED msgVars
    /\ UNCHANGED <<llms, errorCallback, currentModel, method, pc, idx, lastErr, events>>
    /\ UNCHANGED syncVars
    /\ UNCHANGED imageVars
    /\ UNCHANGED <<ctxErr, cancelAt, genCtxErr, emitted, resultLog, doneLog, errLog,
                   sendVal, consumer>>

\* select { case resultCh <- string(text): ; case <-ctx.Done(): return }
TaskSendToken(i) ==
    /\ Alive
    /\ task[i] = "sendTok"
    /\ \/ /\ consumer
          /\ resultLog' = Append(resultLog, Token(i, emitted[i] + 1))
          /\ emitted' = [emitted EXCEPT ![i] = @ + 1]
          /\ task' = [task EXCEPT ![i] = "top"]
       \/ /\ GenCtxDone(i)
          /\ task' = [task EXCEPT ![i] = "ended"]
          /\ UNCHANGED <<resultLog, emitted>>
    /\ UNCHANGED <<callVars, poolVars>>
    /\ UNCHANGED msgVars
    /\ UNCHANGED <<llms, errorCallback, currentModel, method, pc, idx, lastErr, events>>
    /\ UNCHANGED syncVars
    /\ UNCHANGED imageVars
    /\ UNCHANGED <<ctxErr, cancelAt, genCtxErr, genDoneCh, genErrCh, doneLog, errLog,
                   sendVal, consumer>>

\* the done signal that follows a nil error
TaskLateDone(i) ==
    /\ Alive
    /\ task[i] = "afterNil"
    /\ genDoneCh[i] < 1
    /\ genDoneCh' = [genDoneCh EXCEPT ![i] = 1]
    /\ task' = [task EXCEPT ![i] = "ended"]
    /\ UNCHANGED <<callVars, poolVars>>
    /\ UNCHANGED msgVars
    /\ UNCHANGED <<llms, errorCallback, currentModel, method, pc, idx, lastErr, events>>
    /\ UNCHANGED syncVars
    /\ UNCHANGED imageVars
    /\ UNCHANGED <<ctxErr, cancelAt, genCtxErr, emitted, genErrCh, resultLog, doneLog,
                   errLog, sendVal, consumer>>

\* ---- the caller

InCall == pc \notin {"returned", "panicked"}

\* the caller cancels its context, or the context's deadline expires
CallerCancel ==
    /\ InCall
    /\ ~CtxDone
    /\ \E cause \in {"Canceled", "DeadlineExceeded"} :
         /\ ctxErr' = cause
         /\ genCtxErr' = [i \in 1..N |->
                IF task[i] # "none" /\ genCtxErr[i] = "none" THEN cause ELSE genCtxErr[i]]
    /\ cancelAt' = [pc |-> pc, idx |-> idx]
    /\ UNCHANGED <<callVars, poolVars>>
    /\ UNCHANGED msgVars
    /\ UNCHANGED <<llms, errorCallback, currentModel, method, pc, idx, lastErr, events>>
    /\ UNCHANGED syncVars
    /\ UNCHANGED imageVars
    /\ UNCHANGED <<task, emitted, genDoneCh, genErrCh, resultLog, doneLog, errLog,
                   sendVal, consumer>>

\* the consumer stops receiving from the three channels
ConsumerStops ==
    /\ InCall
    /\ pc # "idle"
    /\ consumer
    /\ consumer' = FALSE
    /\ UNCHANGED <<callVars, poolVars>>
    /\ UNCHANGED msgVars
    /\ UNCHANGED <<llms, errorCallback, currentModel, method, pc, idx, lastErr, events>>
    /\ UNCHANGED syncVars
    /\ UNCHANGED imageVars
    /\ UNCHANGED <<ctxErr, cancelAt, genCtxErr, task, emitted, genDoneCh, genErrCh,
                   resultLog, doneLog, errLog, sendVal>>

Orchestrator ==
    \/ GenerateStream
    \/ SendClear
    \/ CheckCtx
    \/ StartAttempt
    \/ OnGenDone
    \/ OnGenErr
    \/ OnCtxDone
    \/ WaitGenDone
    \/ SendDone
    \/ SendErr
    \/ SendFinalErr

InitStream ==
    /\ llms \in SeqsUpTo({Backend(TRUE, ntok, end) : ntok \in 0..MaxTokens, end \in EndKinds},
                         MaxBackends)
    /\ Constructed
    /\ NoGoogle
    /\ messages = <<>>

NextStream ==
    \/ GenerateStream
    \/ SendClear
    \/ CheckCtx
    \/ StartAttempt
    \/ OnGenDone
    \/ OnGenErr
    \/ OnCtxDone
    \/ WaitGenDone
    \/ SendDone
    \/ SendErr
    \/ SendFinalErr
    \/ \E i \in 1..N : TaskTop(i)
    \/ \E i \in 1..N : TaskNext(i)
    \/ \E i \in 1..N : TaskSendToken(i)
    \/ \E i \in 1..N : TaskLateDone(i)
    \/ CallerCancel
    \/ ConsumerStops

SpecStream == InitStream /\ [][NextStream]_vars

\* ------------------------------------------------- Google.GenerateStream called by itself

\* what the task of a stream called by itself leaves alone
directFrame == <<llms, errorCallback, currentModel, method, pc, idx, lastErr, events,
                 syncVars, imageVars, callVars, poolVars, msgVars, ctxErr, cancelAt,
                 genCtxErr, genDoneCh, genErrCh, sendVal, consumer>>

\* a caller hands Google.GenerateStream its context and its own three channels, which
\* are unbuffered; the method starts the goroutine and returns, the caller receives
GoogleGenerateStream ==
    /\ pc = "idle"
    /\ N = 1
    /\ method' = "Google.GenerateStream"
    /\ pc' = "receiving"
    /\ task' = [task EXCEPT ![1] = "top"]
    /\ genCtxErr' = [genCtxErr EXCEPT ![1] = ctxErr]
    /\ UNCHANGED <<callVars, poolVars>>
    /\ UNCHANGED msgVars
    /\ UNCHANGED <<llms, errorCallback, currentModel, idx, lastErr, events>>
    /\ UNCHANGED syncVars
    /\ UNCHANGED imageVars
    /\ UNCHANGED <<ctxErr, cancelAt, emitted, genDoneCh, genErrCh, resultLog, doneLog,
                   errLog, sendVal, consumer>>

\* top of the loop: select { case <-ctx.Done(): errCh <- ctx.Err(); return; default: }
\* with errCh the caller's channel: the bare send completes when the caller receives
DirectTop ==
    /\ method = "Google.GenerateStream"
    /\ task[1] = "top"
    /\ IF GenCtxDone(1)
       THEN /\ consumer
            /\ errLog' = Append(errLog, ErrOfCtx(genCtxErr[1]))
            /\ task' = [task EXCEPT ![1] = "ended"]
       ELSE /\ task' = [task EXCEPT ![1] = "next"]
            /\ UNCHANGED errLog
    /\ UNCHANGED <<resultLog, doneLog, emitted>>
    /\ UNCHANGED directFrame

\* resp, err := iter.Next() and what the task does with it, with doneCh and errCh the
\* caller's channels: select { case ch <- v: ; case <-ctx.Done(): }; return
DirectNext ==
    /\ method = "Google.GenerateStream"
    /\ task[1] = "next"
    /\ \/ \* a response with a text part
          /\ emitted[1] < llms[1].ntok
          /\ task' = [task EXCEPT ![1] = "sendTok"]
          /\ UNCHANGED <<doneLog, errLog>>
       \/ \* iterator.Done
          /\ emitted[1] = llms[1].ntok
          /\ llms[1].end = "done"
          /\ \/ consumer /\ doneLog' = doneLog + 1
             \/ GenCtxDone(1) /\ UNCHANGED doneLog
          /\ task' = [task EXCEPT ![1] = "ended"]
          /\ UNCHANGED errLog
       \/ \* an error of the provider, or of the request aborted because ctx is done
          /\ \E cause \in {"provider", genCtxErr[1]} :
               /\ cause = "provider" => (emitted[1] = llms[1].ntok /\ llms[1].end = "fail")
               /\ cause # "provider" => GenCtxDone(1)
               /\ \/ consumer /\ errLog' = Append(errLog, StreamErr(1, cause))
                  \/ GenCtxDone(1) /\ UNCHANGED errLog
          /\ task' = [task EXCEPT ![1] = "ended"]
          /\ UNCHANGED doneLog
    /\ UNCHANGED <<resultLog, emitted>>
    /\ UNCHANGED directFrame

\* a step of the goroutine of a stream called by itself
DirectTask ==
    \/ DirectTop
    \/ DirectNext
    \/ TaskSendToken(1)

InitDirect ==
    /\ llms \in {<<Backend(TRUE, ntok, end)>> : ntok \in 0..MaxTokens, end \in {"done", "fail"}}
    /\ Constructed
    /\ NoGoogle
    /\ messages = <<>>

NextDirect ==
    \/ GoogleGenerateStream
    \/ DirectTop
    \/ DirectNext
    \/ TaskSendToken(1)
    \/ CallerCancel
    \/ ConsumerStops

SpecDirect == InitDirect /\ [][NextDirect]_vars

\* ------------------------------------------------- synchronous calls and ctx

\* the synchronous methods of FallbackLLM under a caller who may cancel ctx
NextSyncCtx ==
    \/ Generate
    \/ GenerateWithImage
    \/ GenerateWithImages
    \/ GenerateWithMessages
    \/ generateWithFallback
    \/ CallerCancel

SpecSyncCtx == InitSync /\ [][NextSyncCtx]_vars

\* ------------------------------------------------- calls one after the other

\* what a backend may do in a call: succeed or fail when called synchronously, and
\* stream its tokens up to a done signal, an error, or a nil error
Behaviours == {Backend(ok, ntok, end) : ok \in BOOLEAN, ntok \in 0..MaxTokens, end \in EndKinds}

\* the call succeeded: a nil error was returned, or the done signal was delivered
CallSucceeded == (ret.set /\ ret.err = Nil) \/ doneLog > 0

\* the call has returned and the caller makes the next call on the same FallbackLLM:
\* llms, errorCallback and currentModel are the orchestrator's, all else is the
\* call's and starts anew. A backend behaves in every call as Behaviours gave it: its
\* synchronous and its streaming behaviour are independent, so a call that fails can
\* follow one that succeeded.
NewCall ==
    /\ pc = "returned"
    /\ calls + 1 < MaxCalls
    /\ calls' = calls + 1
    /\ modelBefore' = currentModel
    /\ succeeded' = (succeeded \/ CallSucceeded)
    /\ UNCHANGED llms
    /\ method' = "none"
    /\ pc' = "idle"
    /\ idx' = 1
    /\ lastErr' = Nil
    /\ ret' = NoRet
    /\ events' = <<>>
    /\ images' = <<>>
    /\ nMimeTypes' = 0
    /\ ctxErr' = "none"
    /\ cancelAt' = [pc |-> "none", idx |-> 0]
    /\ genCtxErr' = [i \in 1..N |-> "none"]
    /\ task' = [i \in 1..N |-> "none"]
    /\ emitted' = [i \in 1..N |-> 0]
    /\ genDoneCh' = [i \in 1..N |-> 0]
    /\ genErrCh' = [i \in 1..N |-> <<>>]
    /\ resultLog' = <<>>
    /\ doneLog' = 0
    /\ errLog' = <<>>
    /\ sendVal' = Nil
    /\ consumer' = TRUE
    /\ imageData' = <<>>
    /\ srcPos' = <<>>
    /\ imageBufs' = <<>>
    /\ received' = <<>>
    /\ readLog' = <<>>
    /\ handedMsgs' = <<>>
    /\ UNCHANGED messages
    /\ UNCHANGED raceVars
    /\ UNCHANGED adapterVars
    /\ UNCHANGED nestVars
    /\ UNCHANGED <<errorCallback, currentModel>>
    /\ UNCHANGED poolVars

InitCalls ==
    /\ llms \in SeqsUpTo(Behaviours, MaxBackends)
    /\ Constructed
    /\ NoGoogle
    /\ messages = <<>>

NextCalls ==
    \/ Generate
    \/ GenerateWithImage
    \/ GenerateWithImages
    \/ GenerateWithMessages
    \/ generateWithFallback
    \/ GenerateStream
    \/ SendClear
    \/ CheckCtx
    \/ StartAttempt
    \/ OnGenDone
    \/ OnGenErr
    \/ OnCtxDone
    \/ WaitGenDone
    \/ SendDone
    \/ SendErr
    \/ SendFinalErr
    \/ \E i \in 1..N : TaskTop(i)
    \/ \E i \in 1..N : TaskNext(i)
    \/ \E i \in 1..N : TaskSendToken(i)
    \/ \E i \in 1..N : TaskLateDone(i)
    \/ CallerCancel
    \/ NewCall

SpecCalls == InitCalls /\ [][NextCalls]_vars

\* ------------------------------------------------- concurrent calls of Generate

\* what a concurrent call of Generate leaves alone
raceFrame == <<llms, errorCallback, method, pc, idx, lastErr, events, syncVars, streamVars,
               imageVars, poolVars, msgVars, calls, modelBefore, succeeded, adapterVars,
               nestVars>>

\* the string the two words of f.currentModel make: a model id when both words are of
\* one string, and a string no backend reported (a negative number) when they are not
currentModelOf(words) ==
    IF words.ptr = words.len THEN words.ptr
                             ELSE 0 - (1 + words.ptr * (N + 1) + words.len)

\* a goroutine calls f.Generate while others are inside it
ConcurrentGenerate(r) ==
    /\ racers[r].pc = "idle"
    /\ racers' = [racers EXCEPT ![r] = [pc |-> "loop", idx |-> 1, won |-> 0, todo |-> {}]]
    /\ UNCHANGED <<modelWords, currentModel>>
    /\ UNCHANGED raceFrame

\* one iteration of the loop of generateWithFallback in a concurrent call: fn(gen)
\* answers this call with an error or with none; after a nil error the call goes on to
\* f.currentModel = gen.GetModel(), after the last backend's error it returns
ConcurrentIter(r) ==
    /\ racers[r].pc = "loop"
    /\ IF racers[r].idx > N
       THEN racers' = [racers EXCEPT ![r].pc = "returned"]
       ELSE \E ok \in BOOLEAN :
              IF ok
              THEN racers' = [racers EXCEPT ![r] = [pc |-> "store", idx |-> @.idx,
                                                   won |-> @.idx, todo |-> {"ptr", "len"}]]
              ELSE racers' = [racers EXCEPT ![r].idx = @ + 1]
    /\ UNCHANGED <<modelWords, currentModel>>
    /\ UNCHANGED raceFrame

\* f.currentModel = gen.GetModel() with no lock held: the two words of the string are
\* stored one after the other, and the call returns after the second
StoreWord(r) ==
    /\ racers[r].pc = "store"
    /\ \E w \in racers[r].todo :
         /\ modelWords' = [modelWords EXCEPT ![w] = Model(racers[r].won)]
         /\ racers' = [racers EXCEPT ![r].todo = @ \ {w},
                                     ![r].pc = IF racers[r].todo = {w} THEN "returned" ELSE @]
    /\ currentModel' = currentModelOf(modelWords')
    /\ UNCHANGED raceFrame

InitRace ==
    /\ llms \in SeqsUpTo({Backend(TRUE, 0, "done")}, MaxBackends)
    /\ Constructed
    /\ NoGoogle
    /\ messages = <<>>

NextRace ==
    \/ \E r \in 1..MaxRacers : ConcurrentGenerate(r)
    \/ \E r \in 1..MaxRacers : ConcurrentIter(r)
    \/ \E r \in 1..MaxRacers : StoreWord(r)

SpecRace == InitRace /\ [][NextRace]_vars

\* ------------------------------------------------- the adapters' GenerateWithImages

\* a MimeType such as MimeTypePNG = "image/png", as its prefix and what follows it
MimeTypes == {<<"image/", "png">>, <<"image/", "jpeg">>}

\* strings.TrimPrefix(s, prefix)
TrimPrefix(s, prefix) == IF s # <<>> /\ Head(s) = prefix THEN Tail(s) ELSE s

\* the part genai.ImageData(format, data) is asked for: the format and the bytes it is
\* handed
ImageData(format, data) == [type |-> format, data |-> data]

\* the content anthropic.NewMessageContentSource(base64, mediaType, data) is asked for
NewMessageContentSource(mediaType, data) == [type |-> mediaType, data |-> data]

\* Message{Role, Image, MimeType, Content}; image 0 is the nil io.Reader
ImageMessage(role, image, mimeType, text) ==
    [role |-> role, image |-> image, mime |-> mimeType, text |-> text]

\* for i, image := range images { msg.Image = image; msg.MimeType = mimeTypes[i] }
\* from index i on: every iteration writes the same two fields of the one message
RECURSIVE SetImage(_, _, _, _)
SetImage(msg, imgs, mts, i) ==
    IF i > Len(imgs) THEN msg
    ELSE SetImage([msg EXCEPT !.image = imgs[i], !.mime = mts[i]], imgs, mts, i + 1)

\* Google.GenerateWithImages and AnthropicGen.GenerateWithImages: "a single chat message
\* with the prompt and images", handed to GenerateWithMessages
SingleMessage(role, imgs, mts) ==
    <<SetImage(ImageMessage(role, 0, <<>>, "prompt"), imgs, mts, 1)>>

\* GoogleSimpleLLM.GenerateWithImages and Anthropic.GenerateWithImages: one message
\* appended per image, then the message of the prompt
MessagePerImage(role, imgs, mts) ==
    [k \in 1..Len(imgs) |-> ImageMessage(role, imgs[k], mts[k], "")]
        \o <<ImageMessage("user", 0, <<>>, "prompt")>>

\* the image parts GenerateWithMessages of adapter a puts in its request, in the order
\* of the messages: one per message whose Image is not nil (Google leaves out the
\* messages of role system)
RECURSIVE ImageParts(_, _)
ImageParts(a, msgs) ==
    IF msgs = <<>> THEN <<>>
    ELSE LET msg == Head(msgs)
             part == CASE a = "Google" -> ImageData(TrimPrefix(msg.mime, "image/"), msg.image)
                       [] a = "GoogleSimpleLLM" -> ImageData(msg.mime, msg.image)
                       [] OTHER -> NewMessageContentSource(msg.mime, msg.image)
         IN  IF msg.image = 0 \/ (a = "Google" /\ msg.role = "system")
             THEN ImageParts(a, Tail(msgs))
             ELSE <<part>> \o ImageParts(a, Tail(msgs))

Adapters == {"Google", "AnthropicGen", "GoogleSimpleLLM", "Anthropic"}

\* GenerateWithImages(ctx, prompt, images, mimeTypes) of adapter a, up to the request
\* its GenerateWithMessages builds
AdapterGenerateWithImages(a, imgs, mts, prompt) ==
    IF Len(imgs) # Len(mts) THEN [err |-> "mismatch", parts |-> <<>>]
    ELSE CASE a = "Google" ->
                [err |-> "none", parts |-> ImageParts(a, SingleMessage("", imgs, mts))]
           [] a = "AnthropicGen" ->
                [err |-> "none", parts |-> ImageParts(a, SingleMessage("user", imgs, mts))]
           [] a = "GoogleSimpleLLM" ->
                IF ~prompt THEN [err |-> "promptRequired", parts |-> <<>>]
                ELSE [err |-> "none", parts |-> ImageParts(a, MessagePerImage("system", imgs, mts))]
           [] OTHER ->
                IF ~prompt THEN [err |-> "promptRequired", parts |-> <<>>]
                ELSE [err |-> "none", parts |-> ImageParts(a, MessagePerImage("user", imgs, mts))]

\* a caller calls GenerateWithImages of one of the adapters
GenerateWithImagesOfAdapter ==
    /\ adapter = "none"
    /\ \E a \in Adapters, imgs \in SeqsUpTo(1..MaxParts, MaxParts),
          mts \in SeqsUpTo(MimeTypes, MaxParts), prompt \in BOOLEAN :
         /\ adapter' = a
         /\ adapterIn' = [images |-> imgs, mimeTypes |-> mts, prompt |-> prompt]
         /\ request' = AdapterGenerateWithImages(a, imgs, mts, prompt)
    /\ UNCHANGED <<llms, errorCallback, currentModel, method, pc, idx, lastErr, events,
                   syncVars, streamVars, imageVars, poolVars, msgVars, calls, modelBefore,
                   succeeded, raceVars, nestVars>>

InitAdapters ==
    /\ llms = <<>>
    /\ Constructed
    /\ NoGoogle
    /\ messages = <<>>

NextAdapters == GenerateWithImagesOfAdapter

SpecAdapters == InitAdapters /\ [][NextAdapters]_vars

\* ------------------------------------------------- a FallbackLLM among the backends

\* the model id of a backend: of element i of the list (j = 0), of element j of the
\* FallbackLLM that is element i of the list
LeafId(i, j) == i * (MaxNested + 1) + j

\* an LLM of a backend list: a backend whose Generate answers with its id or with an
\* error, or a FallbackLLM over llms
Leaf(id, ok) == [kind |-> "leaf", id |-> id, ok |-> ok, llms |-> <<>>]

Fallback(gens) == [kind |-> "fallback", id |-> 0, ok |-> FALSE, llms |-> gens]

\* NewFallbackLLM(gens, cb) with up to MaxNested backends as element i of a list
InnerAt(i) ==
    UNION {{Fallback([j \in 1..k |-> Leaf(LeafId(i, j), f[j])]) : f \in [1..k -> BOOLEAN]} :
               k \in 0..MaxNested}

ElementsAt(i) == {Leaf(LeafId(i, 0), ok) : ok \in BOOLEAN} \cup InnerAt(i)

\* the backend lists of up to MaxNested elements
NestedLists ==
    UNION {{gens \in [1..n -> UNION {ElementsAt(i) : i \in 1..n}] :
               \A i \in 1..n : gens[i] \in ElementsAt(i)} : n \in 0..MaxNested}

\* variant of AllFailed: a FallbackLLM whose loop ends returns no error
AllFailedNilError(last, log, errs) ==
    [response |-> 0, err |-> Nil, log |-> log, errs |-> errs, model |-> NoModel]

\* generateWithFallback after its loop: return "", fmt.Errorf("LLM failed, last error:
\* %v", lastErr), f.currentModel as NewFallbackLLM left it
AllFailed(last, log, errs) ==
    [response |-> 0, err |-> AggregatedErr(last), log |-> log, errs |-> errs,
     model |-> NoModel]

RECURSIVE generateWithFallbackOf(_, _, _, _, _)
RECURSIVE GenerateOf(_)

\* gen.Generate(ctx, systemPrompt, prompt) followed by gen.GetModel(): the response, the
\* error, the backends invoked in order (log) and the model reported
GenerateOf(gen) ==
    IF gen.kind = "leaf"
    THEN [response |-> IF gen.ok THEN gen.id ELSE 0,
          err |-> IF gen.ok THEN Nil ELSE BackendErr(gen.id),
          log |-> <<gen.id>>, errs |-> <<>>, model |-> Model(gen.id)]
    ELSE generateWithFallbackOf(gen.llms, 1, Nil, <<>>, <<>>)

\* the loop of generateWithFallback from element i on, with Generate as fn; errs are
\* the errors fn has returned to this FallbackLLM, those handed to its errorCallback
generateWithFallbackOf(gens, i, last, log, errs) ==
    IF i > Len(gens) THEN AllFailed(last, log, errs)
    ELSE LET r == GenerateOf(gens[i])
         IN  IF r.err = Nil
             THEN [response |-> r.response, err |-> Nil, log |-> log \o r.log,
                   errs |-> errs, model |-> r.model]
             ELSE generateWithFallbackOf(gens, i + 1, r.err, log \o r.log,
                                         Append(errs, r.err))

\* the leaf backends of a list, depth-first in list order
RECURSIVE Flatten(_)
Flatten(gens) ==
    IF gens = <<>> THEN <<>>
    ELSE (IF Head(gens).kind = "leaf" THEN <<Head(gens)>> ELSE Flatten(Head(gens).llms))
             \o Flatten(Tail(gens))

\* what a call of Generate leaves behind
RunOf(r) == [called |-> TRUE, response |-> r.response, err |-> r.err, log |-> r.log,
             errs |-> r.errs, model |-> r.model]

nestFrame == <<llms, errorCallback, currentModel, method, pc, idx, lastErr, events,
               syncVars, streamVars, imageVars, poolVars, msgVars, calls, modelBefore,
               succeeded, raceVars, adapterVars, nestedLLMs>>

\* Generate of NewFallbackLLM(nestedLLMs, cb)
GenerateNested ==
    /\ ~nestedRun.called
    /\ nestedRun' = RunOf(GenerateOf(Fallback(nestedLLMs)))
    /\ UNCHANGED flatRun
    /\ UNCHANGED nestFrame

\* Generate of NewFallbackLLM(gens, cb) with the leaf backends of nestedLLMs as gens
GenerateFlat ==
    /\ ~flatRun.called
    /\ flatRun' = RunOf(GenerateOf(Fallback(Flatten(nestedLLMs))))
    /\ UNCHANGED nestedRun
    /\ UNCHANGED nestFrame

InitNested ==
    /\ llms = <<>>
    /\ BeforeCall
    /\ nestedLLMs \in NestedLists
    /\ NoGoogle
    /\ messages = <<>>

NextNested == GenerateNested \/ GenerateFlat

SpecNested == InitNested /\ [][NextNested]_vars

\* ------------------------------------------------- the client pool of Google

\* what the pool leaves alone: the orchestrator and its call
fallbackVars == <<llms, errorCallback, currentModel, method, pc, idx, lastErr, events,
                  syncVars, streamVars, imageVars, callVars, msgVars>>

\* len(g.clients)
PoolSize == Cardinality(DOMAIN clients)

\* a nil *genai.Client
NilClient == 0 - 1

Idle == [pc |-> "idle", index |-> 0]

\* getNextClient has returned a client to the caller's Generate, GenerateStream or
\* GenerateWithMessages
Selected == [pc |-> "selected", index |-> 0]

\* a *Google exists and the process runs
PoolReady == newErr = "nil" /\ ~crashed

\* a caller may start an operation on the pool
MayStart(c) ==
    /\ PoolReady
    /\ sel[c].pc = "idle"
    /\ ops < MaxOps

\* NewGoogle(projectID, locations, ...): one client per location; an error, and no
\* pool, when a client cannot be created or when there is no location
NewGoogle ==
    /\ newErr = "none"
    /\ \E locs \in SeqsUpTo({"ok", "fail"}, MaxLocations) :
         IF \E l \in 1..Len(locs) : locs[l] = "fail"
         THEN /\ newErr' = "clientFailed"
              /\ UNCHANGED <<clients, locations>>
         ELSE IF Len(locs) = 0
              THEN /\ newErr' = "emptyLocations"
                   /\ UNCHANGED <<clients, locations>>
              ELSE /\ newErr' = "nil"
                   /\ clients' = [i \in 0..(Len(locs) - 1) |-> i]
                   /\ locations' = [i \in 0..(Len(locs) - 1) |-> i]
    /\ UNCHANGED <<clientIndex, safetySettings, sel, selections, modelLog, crashed, ops,
                   writer, issued>>
    /\ UNCHANGED fallbackVars

\* g.mu is free for a reader: no SetSafetySettings holds g.mu.Lock()
RLockFree == ~writer.on

\* g.mu is free for a writer: no caller is inside getNextClient, none in SetSafetySettings
LockFree == RLockFree /\ \A o \in DOMAIN sel : sel[o].pc # "added"

\* SetSafetySettings up to the store: g.mu.Lock() is taken and g.safetySettings = settings
\* begins. A slice is a pointer and a length, stored one word after the other.
SetSafetySettings(c) ==
    /\ MayStart(c)
    /\ LockFree
    /\ \E settings \in {1, 2} : writer' = [on |-> TRUE, settings |-> settings]
    /\ sel' = [sel EXCEPT ![c] = [pc |-> "storing", index |-> 0]]
    /\ ops' = ops + 1
    /\ UNCHANGED <<clients, locations, clientIndex, safetySettings, newErr, selections,
                   modelLog, crashed, issued>>
    /\ UNCHANGED fallbackVars

\* the rest of SetSafetySettings: the store is complete, g.mu.Unlock()
SetSafetySettingsReturn(c) ==
    /\ PoolReady
    /\ sel[c].pc = "storing"
    /\ safetySettings' = writer.settings
    /\ writer' = NoWriter
    /\ sel' = [sel EXCEPT ![c] = Idle]
    /\ UNCHANGED <<clients, locations, clientIndex, newErr, selections, modelLog, crashed,
                   ops, issued>>
    /\ UNCHANGED fallbackVars

\* variant of SingleClient: the pool of one client is not told apart
SingleClientNever == FALSE

\* len(g.clients) == 1
SingleClient == PoolSize = 1

\* getNextClient up to index := atomic.AddInt32(&g.clientIndex, 1); with no client
\* or one client it returns at once. g.mu.RLock() is shared: callers run it together.
getNextClient(c) ==
    /\ MayStart(c)
    /\ RLockFree
    /\ ops' = ops + 1
    /\ IF PoolSize = 0
       THEN /\ selections' = Append(selections, NilClient)
            /\ UNCHANGED <<clientIndex, sel>>
       ELSE IF SingleClient
            THEN /\ selections' = Append(selections, clients[0])
                 /\ sel' = [sel EXCEPT ![c] = Selected]
                 /\ UNCHANGED clientIndex
            ELSE /\ clientIndex' = clientIndex + 1
                 /\ sel' = [sel EXCEPT ![c] = [pc |-> "added", index |-> clientIndex + 1]]
                 /\ UNCHANGED selections
    /\ UNCHANGED <<clients, locations, safetySettings, newErr, modelLog, crashed, writer,
                   issued>>
    /\ UNCHANGED fallbackVars

\* variant of getNextClientReturn: the counter is put back to 0 after every selection
getNextClientReturnResets(c) ==
    /\ PoolReady
    /\ sel[c].pc = "added"
    /\ LET index == IF sel[c].index >= PoolSize THEN 0 ELSE sel[c].index IN
         selections' = Append(selections, clients[index])
    /\ clientIndex' = 0
    /\ sel' = [sel EXCEPT ![c] = Selected]
    /\ UNCHANGED <<clients, locations, safetySettings, newErr, modelLog, crashed, ops,
                   writer, issued>>
    /\ UNCHANGED fallbackVars

\* variant of getNextClientReturn: the wrapped index is returned but never stored
getNextClientReturnNoStore(c) ==
    /\ PoolReady
    /\ sel[c].pc = "added"
    /\ LET index == IF sel[c].index >= PoolSize THEN 0 ELSE sel[c].index IN
         selections' = Append(selections, clients[index])
    /\ sel' = [sel EXCEPT ![c] = Selected]
    /\ UNCHANGED <<clients, locations, clientIndex, safetySettings, newErr, modelLog,
                   crashed, ops, writer, issued>>
    /\ UNCHANGED fallbackVars

\* the rest of getNextClient: if index >= len(g.clients) { StoreInt32(&g.clientIndex, 0);
\* index = 0 }; return g.clients[index]
getNextClientReturn(c) ==
    /\ PoolReady
    /\ sel[c].pc = "added"
    /\ LET index == IF sel[c].index >= PoolSize THEN 0 ELSE sel[c].index IN
         /\ clientIndex' = IF sel[c].index >= PoolSize THEN 0 ELSE clientIndex
         /\ selections' = Append(selections, clients[index])
    /\ sel' = [sel EXCEPT ![c] = Selected]
    /\ UNCHANGED <<clients, locations, safetySettings, newErr, modelLog, crashed, ops,
                   writer, issued>>
    /\ UNCHANGED fallbackVars

\* a slice of k settings: its pointer word and its length word
Header(k) == [ptr |-> k, len |-> k]

\* what a read of g.safetySettings outside g.mu yields: the slice stored, or, while a
\* store is in progress, each word from before or after it
SettingsRead ==
    IF writer.on
    THEN {[ptr |-> p, len |-> l] : p \in {safetySettings, writer.settings},
                                  l \in {safetySettings, writer.settings}}
    ELSE {Header(safetySettings)}

\* what follows getNextClient in Generate, GenerateStream and GenerateWithMessages:
\* gModel := client.GenerativeModel(g.model); gModel.SafetySettings = g.safetySettings,
\* read with g.mu not held; the request is issued with gModel
GenerativeModel(c) ==
    /\ PoolReady
    /\ sel[c].pc = "selected"
    /\ \E h \in SettingsRead :
         issued' = Append(issued,
             [read |-> h, stored |-> safetySettings,
              storing |-> IF writer.on THEN writer.settings ELSE safetySettings])
    /\ sel' = [sel EXCEPT ![c] = Idle]
    /\ UNCHANGED <<clients, locations, clientIndex, safetySettings, newErr, selections,
                   modelLog, crashed, ops, writer>>
    /\ UNCHANGED fallbackVars

\* Google.GetModel: g.locations[atomic.LoadInt32(&g.clientIndex)] under g.mu.RLock();
\* an index out of range is a run-time panic
GetModel(c) ==
    /\ MayStart(c)
    /\ RLockFree
    /\ ops' = ops + 1
    /\ IF clientIndex \in DOMAIN locations
       THEN /\ modelLog' = Append(modelLog, locations[clientIndex])
            /\ UNCHANGED crashed
       ELSE /\ crashed' = TRUE
            /\ UNCHANGED modelLog
    /\ UNCHANGED <<clients, locations, clientIndex, safetySettings, newErr, sel, selections,
                   writer, issued>>
    /\ UNCHANGED fallbackVars

\* before NewGoogle is called; the callers of the pool are the goroutines that use it
InitPool ==
    /\ llms = <<>>
    /\ Constructed
    /\ messages = <<>>
    /\ clients = <<>>
    /\ locations = <<>>
    /\ clientIndex = 0
    /\ safetySettings = 0
    /\ newErr = "none"
    /\ sel = [c \in 1..MaxCallers |-> Idle]
    /\ selections = <<>>
    /\ modelLog = <<>>
    /\ crashed = FALSE
    /\ ops = 0
    /\ writer = NoWriter
    /\ issued = <<>>

NextPool ==
    \/ NewGoogle
    \/ \E c \in 1..MaxCallers : SetSafetySettings(c)
    \/ \E c \in 1..MaxCallers : SetSafetySettingsReturn(c)
    \/ \E c \in 1..MaxCallers : getNextClient(c)
    \/ \E c \in 1..MaxCallers : getNextClientReturn(c)
    \/ \E c \in 1..MaxCallers : GenerativeModel(c)
    \/ \E c \in 1..MaxCallers : GetModel(c)

SpecPool == InitPool /\ [][NextPool]_vars

\* no caller is inside an operation of the pool
AllIdle == \A o \in DOMAIN sel : sel[o].pc = "idle"

\* sequential use of the pool: an operation starts when the one before it has returned
NextPoolSeq ==
    \/ NewGoogle
    \/ \E c \in 1..MaxCallers : AllIdle /\ SetSafetySettings(c)
    \/ \E c \in 1..MaxCallers : SetSafetySettingsReturn(c)
    \/ \E c \in 1..MaxCallers : AllIdle /\ getNextClient(c)
    \/ \E c \in 1..MaxCallers : getNextClientReturn(c)
    \/ \E c \in 1..MaxCallers : GenerativeModel(c)
    \/ \E c \in 1..MaxCallers : AllIdle /\ GetModel(c)

SpecPoolSeq == InitPool /\ [][NextPoolSeq]_vars

\* ------------------------------------------------- claims: synchronous calls

\* the backends a call has invoked, in order
Invocations == SelectSeq(events, LAMBDA e : e[1] = "invoke")

Callbacks == SelectSeq(events, LAMBDA e : e[1] = "callback")

UpTo(k) == [j \in 1..k |-> Ev("invoke", j)]

\* the call got past its input checks (image count and image buffering)
InputAccepted == ~(ret.set /\ ret.err.kind \in {"mismatch", "copyFailed", "bufferFailed"})

IsFirstOk(k) == /\ k \in 1..N
                /\ llms[k].ok
                /\ \A j \in 1..(k - 1) : ~llms[j].ok

AllFail == \A j \in 1..N : ~llms[j].ok

\* C1: when backend k is the first of the list to succeed, a synchronous call whose
\* input was accepted returns backend k's result and a nil error, GetModel() is then
\* backend k's model id, backends 1..k were invoked once each in list order, and at
\* no time of the call is a backend after k invoked.
C1_FirstSuccessWins ==
    \A k \in 1..N :
        IsFirstOk(k) =>
            /\ \E m \in 0..k : Invocations = UpTo(m)
            /\ (pc = "returned" /\ InputAccepted) =>
                   /\ ret = Return(k, Nil)
                   /\ currentModel = Model(k)
                   /\ Invocations = UpTo(k)

C1_Witness ==
    /\ pc = "returned"
    /\ N >= 2
    /\ IsFirstOk(2)
    /\ method = "GenerateWithMessages"
    /\ currentModel = Model(2)

\* what the callback and the backends see when every backend fails:
\* invoke 1, callback 1, invoke 2, callback 2, ...
FailureTrace(n) == [j \in 1..(2 * n) |-> IF j % 2 = 1 THEN Ev("invoke", (j + 1) \div 2)
                                                      ELSE Ev("callback", j \div 2)]

\* C6: with a non-empty list whose backends all fail, a synchronous call returns an
\* error, and a callback is invoked once per backend, in list order, after that
\* backend's failure and before the next backend is invoked (a nil callback is
\* never invoked).
C6_CallbackOncePerFailure ==
    (N >= 1 /\ AllFail /\ pc = "returned" /\ InputAccepted) =>
        /\ ret.err # Nil
        /\ ret.resp = 0
        /\ errorCallback => events = FailureTrace(N)
        /\ ~errorCallback => events = UpTo(N)

C6_Witness ==
    /\ pc = "returned"
    /\ N >= 2
    /\ AllFail
    /\ errorCallback
    /\ method = "GenerateWithImage"
    /\ Len(Callbacks) = N

\* C7: with a non-empty list whose backends all fail, the error a synchronous call
\* returns is the aggregated error built from the error of the last backend of the
\* list, and from no earlier one.
C7_AggregateWrapsLastError ==
    (N >= 1 /\ AllFail /\ pc = "returned" /\ InputAccepted) =>
        /\ ret.err.kind = "LLMFailed"
        /\ ret.err.wraps = BackendErr(N).kind
        /\ ret.err.of = N

C7_Witness ==
    /\ pc = "returned"
    /\ N >= 2
    /\ AllFail
    /\ ret.err.kind = "LLMFailed"
    /\ method = "Generate"

\* ------------------------------------------------- claims: GenerateStream

\* the call is over: it returned, or the process crashed
Terminated == pc \in {"returned", "panicked"}

RECURSIVE TokensOf(_, _)
TokensOf(i, n) == IF n = 0 THEN <<>> ELSE Append(TokensOf(i, n - 1), Token(i, n))

\* tokens of backend 1, "[CLEAR]", tokens of backend 2, ..., tokens of backend k
RECURSIVE ExpectedResult(_)
ExpectedResult(k) ==
    IF k = 0 THEN <<>>
    ELSE IF k = 1 THEN TokensOf(1, llms[1].ntok)
    ELSE ExpectedResult(k - 1) \o <<CLEAR>> \o TokensOf(k, llms[k].ntok)

FailThenComplete(k) ==
    /\ k \in 1..N
    /\ llms[k].end \in {"done", "nil"}
    /\ \A j \in 1..(k - 1) : llms[j].end = "fail"

AllStreamsFail == \A j \in 1..N : llms[j].end = "fail"

ClearsBefore(p) == Cardinality({q \in 1..(p - 1) : resultLog[q] = CLEAR})

\* C2: when backends 1..k-1 fail and backend k completes, the caller's context is
\* never cancelled and the consumer receives, a call of GenerateStream that is over
\* has delivered on resultCh the tokens of backend 1, "[CLEAR]", the tokens of
\* backend 2, ..., the tokens of backend k (k-1 sentinels), then one done signal,
\* and no error.
C2_ClearSeparatedSequence ==
    \A k \in 1..N :
        (FailThenComplete(k) /\ Terminated /\ ~CtxDone /\ consumer) =>
            /\ resultLog = ExpectedResult(k)
            /\ doneLog = 1
            /\ errLog = <<>>

\* C3: a token delivered after m "[CLEAR]" sentinels comes from backend m+1 (so no
\* token of a backend follows the sentinel that precedes the next attempt, and the
\* tokens of two backends never interleave), and when attempt i+1 has been started
\* the derived context of attempt i is cancelled and its streaming task has ended.
C3_NoTokenAcrossClear ==
    /\ \A p \in 1..Len(resultLog) :
           resultLog[p] # CLEAR => resultLog[p].src = 1 + ClearsBefore(p)
    /\ \A i \in 1..(N - 1) :
           task[i + 1] # "none" => (GenCtxDone(i) /\ task[i] = "ended")

C3_Witness ==
    /\ N >= 2
    /\ resultLog = <<Token(1, 1), CLEAR, Token(2, 1)>>
    /\ task[2] # "none"

\* C4: if the caller's context is cancelled while the orchestrator waits on the
\* running attempt i, no backend after i is ever started.
C4_NoFallbackAfterCallerCancel ==
    cancelAt.pc = "wait" =>
        \A j \in 1..N : j > cancelAt.idx => task[j] = "none"

C4_Witness ==
    /\ N >= 2
    /\ cancelAt = [pc |-> "wait", idx |-> 1]
    /\ lastErr # Nil
    /\ idx = 2
    /\ pc = "returned"
    /\ task[2] = "none"

\* C5: a call whose context was cancelled (context.Canceled) while a backend was
\* mid-stream, whose consumer receives, and that returned without a done signal has
\* delivered the context's error on errCh.
C5_CancelErrorDelivered ==
    (cancelAt.pc = "wait" /\ ctxErr = "Canceled" /\ pc = "returned" /\ consumer
        /\ doneLog = 0) =>
        errLog = <<ErrOfCtx(ctxErr)>>

\* C8: when every backend fails, the caller's context is never cancelled and the
\* consumer receives, a call that is over has delivered exactly one error, the
\* aggregated error built from the last backend's error, and no done signal; with
\* an empty list the plain "LLM failed" error, no callback and no "[CLEAR]".
C8_ExhaustionError ==
    (AllStreamsFail /\ Terminated /\ ~CtxDone /\ consumer) =>
        /\ doneLog = 0
        /\ N >= 1 => errLog = <<AggregatedErr(StreamErr(N, "provider"))>>
        /\ N = 0 => (errLog = <<LLMFailed>> /\ events = <<>> /\ resultLog = <<>>)

\* C9: when the done signal has been delivered, the derived context of the
\* completing attempt is cancelled, Current-Model is the completing backend's model
\* id, and no later backend was started.
C9_ModelSetBeforeDone ==
    doneLog > 0 =>
        /\ GenCtxDone(idx)
        /\ currentModel = Model(idx)
        /\ \A j \in 1..N : j > idx => task[j] = "none"

\* C10: once the caller's context is cancelled, the orchestrator is never blocked at
\* one of its channel sends, whether or not the consumer receives.
C10_SendsRaceContext ==
    (CtxDone /\ pc \in {"clear", "sendDone", "sendErr", "final"}) => ENABLED Orchestrator

\* C11: a call of GenerateStream that has returned while the consumer receives has
\* delivered a terminal signal: a done signal or an error.
C11_TerminalSignalBeforeReturn ==
    (pc = "returned" /\ consumer) => doneLog + Len(errLog) >= 1

\* ------------------------------------------------- claims: images

\* the reader r handed for image k is nil for a nil image, and otherwise stands at
\* the start and yields the bytes of the caller's source
FullImage(r, k) == IF images[k] = "nil" THEN r.nil
                   ELSE /\ ~r.nil
                        /\ r.pos = 0
                        /\ Yields(r) = imageData[k]

\* C12: in GenerateWithImage and GenerateWithImages every backend invoked, the
\* first and the later ones alike, whatever the backends before it read of their
\* readers, is handed for each image a reader of its own that stands at the start
\* and yields byte for byte the bytes of the caller's source; a nil image is handed
\* on as a nil reader.
C12_FreshReaderPerAttempt ==
    method \in Buffering =>
        /\ Len(received) = Len(Invocations)
        /\ \A a \in 1..Len(received) : \A k \in 1..Len(images) :
               /\ FullImage(received[a][k].reader, k)
               /\ received[a][k].reader.src # "source"

C12_Witness ==
    /\ method = "GenerateWithImages"
    /\ Len(received) = 2
    /\ images = <<"ok">>
    /\ Len(imageData[1]) = MaxBytes
    /\ received[1][1].read = 1
    /\ Yields(received[2][1].reader) = imageData[1]

\* the entry points that carry their images in the request as they were given
Direct == {"GenerateWithMessages", "GenerateFromImage", "GenerateFromImages",
           "GenerateFromChat"}

\* C13: in GenerateWithMessages, GenerateFromImage, GenerateFromImages and
\* GenerateFromChat every backend invoked is handed, for each image, a reader that
\* yields all the bytes of the caller's source.
C13_DirectEntryPointsRebuffer ==
    method \in Direct =>
        \A a \in 1..Len(received) : \A k \in 1..Len(images) :
            FullImage(received[a][k].reader, k)

\* C18: with an empty list a synchronous call whose input was accepted returns no
\* response and the aggregated error whose wrapped last error is a "no backends"
\* sentinel, invokes no callback and leaves GetModel() as it was.
C18_EmptyListNoBackendsSentinel ==
    (N = 0 /\ pc = "returned" /\ method \in Buffering \cup {"Generate", "GenerateWithMessages"}
        /\ InputAccepted) =>
        /\ ret.resp = 0
        /\ ret.err.kind = "LLMFailed"
        /\ ret.err.wraps = "noBackends"
        /\ events = <<>>
        /\ currentModel = modelBefore

\* C19: GenerateWithImages called with len(images) # len(mimeTypes) has returned the
\* mismatch error and nothing else happened: no backend was invoked or handed a
\* reader, no image source was read, the callback was not invoked and GetModel() is
\* as it was.
C19_MismatchRejectedFirst ==
    (method = "GenerateWithImages" /\ Len(images) # nMimeTypes) =>
        /\ pc = "returned"
        /\ ret = Return(0, Err("mismatch", 0, ""))
        /\ events = <<>>
        /\ received = <<>>
        /\ readLog = <<>>
        /\ \A k \in 1..Len(images) : srcPos[k] = 0
        /\ currentModel = modelBefore

C19_Witness ==
    /\ method = "GenerateWithImages"
    /\ images = <<"ok">>
    /\ Len(imageData[1]) = MaxBytes
    /\ nMimeTypes = 0
    /\ N = MaxBackends
    /\ errorCallback
    /\ pc = "returned"

\* ------------------------------------------------- claims: the client pool

\* C14: in a pool of N >= 2 clients, any N consecutive selections of getNextClient
\* are the N clients, each once.
C14_RoundRobinExactlyOnce ==
    (newErr = "nil" /\ PoolSize >= 2) =>
        \A s \in 1..(Len(selections) - PoolSize + 1) :
            {selections[s + j] : j \in 0..(PoolSize - 1)} = {clients[i] : i \in DOMAIN clients}

\* C15: in every state of a pool, the states in the middle of a caller's selection
\* among them, clientIndex is an index of the pool, and GetModel has never indexed
\* locations out of range.
C15_CounterIsValidIndex ==
    newErr = "nil" =>
        /\ clientIndex \in DOMAIN locations
        /\ ~crashed

\* C16: in a pool of one client every selection of getNextClient is that client, the
\* counter stays as NewGoogle left it, and GetModel reports that client's location.
C16_SingleClientFastPath ==
    (newErr = "nil" /\ PoolSize = 1) =>
        /\ clientIndex = 0
        /\ \A s \in 1..Len(selections) : selections[s] = clients[0]
        /\ \A s \in 1..Len(modelLog) : modelLog[s] = locations[0]
        /\ ~crashed

C16_Witness ==
    /\ newErr = "nil"
    /\ PoolSize = 1
    /\ Len(selections) >= 2
    /\ Len(modelLog) >= 1
    /\ ops = MaxOps

\* C17: NewGoogle with no location returns an error and no pool; on a pool that was
\* constructed getNextClient never returns nil and no operation fails.
C17_OnlyConstructionFails ==
    /\ newErr = "emptyLocations" => PoolSize = 0
    /\ newErr = "nil" =>
           /\ PoolSize >= 1
           /\ \A s \in 1..Len(selections) : selections[s] # NilClient
           /\ ~crashed

\* ------------------------------------------------- claims: Current-Model

\* the call is over and has failed: a synchronous call returned an error, or
\* GenerateStream returned (or the process crashed) with no done signal delivered
CallFailed ==
    /\ Terminated
    /\ IF method = "GenerateStream" THEN doneLog = 0 ELSE ret.err # Nil

\* a backend has succeeded in the present call
SucceededNow == (ret.set /\ ret.err = Nil) \/ pc = "sendDone" \/ doneLog > 0

\* C20: over the calls made one after the other on a FallbackLLM, a call that ends in
\* failure leaves GetModel() as it was when the call was made, and GetModel() is the
\* empty string as long as no backend has succeeded.
C20_ModelChangesOnlyOnSuccess ==
    /\ CallFailed => currentModel = modelBefore
    /\ ~(succeeded \/ SucceededNow) => currentModel = NoModel

C20_Witness ==
    /\ calls >= 1
    /\ modelBefore = Model(2)
    /\ method = "GenerateStream"
    /\ CtxDone
    /\ lastErr # Nil
    /\ pc = "returned"
    /\ CallFailed

\* ------------------------------------------------- claims: GenerateStream, continued

\* the position of event e in events (0: it has not happened)
Pos(e) == IF \E p \in 1..Len(events) : events[p] = e
          THEN CHOOSE p \in 1..Len(events) : events[p] = e
          ELSE 0

Count(e) == Cardinality({p \in 1..Len(events) : events[p] = e})

\* C25: in a call that is over, whose context was never cancelled and whose consumer
\* receives, for every backend i that was started and failed: attempt i's derived
\* context is cancelled, the callback was invoked once for i, after the cancellation,
\* and backend i+1, if there is one, was started after that; the callbacks come in
\* list order.
C25_FailureCancelsReportsAdvances ==
    (Terminated /\ ~CtxDone /\ consumer) =>
        /\ \A i \in 1..N :
               (task[i] # "none" /\ llms[i].end = "fail") =>
                   /\ GenCtxDone(i)
                   /\ Count(Ev("callback", i)) = 1
                   /\ Pos(Ev("cancel", i)) < Pos(Ev("callback", i))
                   /\ i < N => Pos(Ev("callback", i)) < Pos(Ev("start", i + 1))
        /\ Callbacks = [j \in 1..Len(Callbacks) |-> Ev("callback", j)]

\* the streaming task of attempt i is running
Running(i) == task[i] \notin {"none", "ended"}

\* C26: at no time are the streaming tasks of two backends running, and when backend
\* i+1 has been started, attempt i has signalled an error, its derived context was
\* cancelled before the start, and its task has ended.
C26_OneAttemptAtATime ==
    /\ Cardinality({i \in 1..N : Running(i)}) <= 1
    /\ \A i \in 1..(N - 1) :
           task[i + 1] # "none" =>
               /\ ~Running(i)
               /\ GenCtxDone(i)
               /\ Pos(Ev("cancel", i)) \in 1..(Pos(Ev("start", i + 1)) - 1)
               /\ llms[i].end = "fail" \/ CtxDone

C26_Witness ==
    /\ N >= 2
    /\ Running(2)
    /\ task[1] = "ended"
    /\ emitted[1] = MaxTokens
    /\ ~CtxDone

\* C28: a FallbackLLM built with a nil callback never crashes on a backend failure.
C28_NilCallbackNeverCrashes ==
    ~errorCallback => pc # "panicked"

\* C29: a call of GenerateStream delivers at most one terminal signal, a done signal
\* or an error, never both and never twice, and once it is delivered the call has
\* returned and sends nothing more.
C29_AtMostOneTerminalSignal ==
    /\ doneLog + Len(errLog) <= 1
    /\ doneLog + Len(errLog) = 1 => (pc = "returned" /\ ~ENABLED Orchestrator)

C29_Witness ==
    /\ N >= 2
    /\ errLog # <<>>
    /\ \E p \in 1..Len(resultLog) : resultLog[p] = CLEAR
    /\ CtxDone
    /\ pc = "returned"

\* C30: once the caller's context is cancelled, the orchestrator is never blocked at a
\* wait on the channels of an attempt: neither at the select on genDoneCh, genErrCh
\* and ctx.Done(), nor at the receive from genDoneCh that follows a nil error.
C30_WaitsEndOnCancel ==
    (CtxDone /\ pc \in {"wait", "waitGenDone"}) => ENABLED Orchestrator

\* ------------------------------------------------- claims: synchronous calls and ctx

\* C21: in a synchronous call whose context is cancelled, the backend that was being
\* tried when the context was cancelled is the last one invoked: no backend after it
\* is invoked.
C21_CancelStopsFallback ==
    Aborted => \A p \in 1..Len(Invocations) : Invocations[p][2] <= cancelAt.idx
\* ------------------------------------------------- claims: the client pool, sequential use

\* the endpoint the most recent getNextClient returned; endpoint 0 before any selection
LastSelected == IF selections = <<>> THEN 0 ELSE selections[Len(selections)]

\* C22: in sequential use of a pool with one or more endpoints, GetModel() returns the
\* label of the endpoint the most recent getNextClient returned, and of endpoint 0
\* before any selection; it never fails
C22_LabelOfLastSelected ==
    [][\A c \in 1..MaxCallers :
          (AllIdle /\ GetModel(c)) =>
              /\ ~crashed'
              /\ modelLog' = Append(modelLog, locations[LastSelected])]_vars

\* GetModel answered after the rotation had selected endpoint 1 and again after it
\* had wrapped to endpoint 0
C22_Witness ==
    /\ PoolSize >= 2
    /\ selections = <<1, 0>>
    /\ modelLog = <<locations[1], locations[0]>>
\* ------------------------------------------------- claims: the conversation

\* C23: GenerateWithMessages hands every backend it attempts the caller's conversation:
\* as many messages, in the same order, with the same role and text at each position,
\* whatever the backends before it did
C23_SameConversationEveryAttempt ==
    method = "GenerateWithMessages" =>
        /\ Len(handedMsgs) = Len(Invocations)
        /\ \A a \in 1..Len(handedMsgs) :
               /\ Len(handedMsgs[a]) = Len(messages)
               /\ \A k \in 1..Len(messages) :
                      /\ handedMsgs[a][k].role = messages[k].role
                      /\ handedMsgs[a][k].text = messages[k].text

\* a second backend was handed a conversation of two different messages after the
\* first had failed
C23_Witness ==
    /\ method = "GenerateWithMessages"
    /\ Len(handedMsgs) = 2
    /\ Len(messages) = MaxMessages
    /\ messages[1] # messages[2]
    /\ ~llms[1].ok

\* ------------------------------------------------- claims: the safety settings

\* C24: every call is issued with settings that are complete: those stored when no
\* SetSafetySettings is running (so a call started after SetSafetySettings(s) returned
\* is issued with s), and the old or the new ones when one is running
C24_SettingsOldOrNew ==
    \A e \in 1..Len(issued) :
        issued[e].read \in {Header(issued[e].stored), Header(issued[e].storing)}

\* ------------------------------------------------- claims: concurrent calls

\* the model ids of the backends that have answered a concurrent call with no error
Winners == {Model(racers[r].won) : r \in {q \in 1..MaxRacers : racers[q].won # 0}}

\* C27: under concurrent calls GetModel() is at all times the empty string or the
\* model id of a backend that won one of the calls, and when all calls have finished
\* and one has succeeded it is the id of one of the winners
C27_ModelIsAWinnersId ==
    /\ currentModel \in {NoModel} \cup Winners
    /\ ((\A r \in 1..MaxRacers : racers[r].pc = "returned") /\ Winners # {}) =>
           currentModel \in Winners
\* ------------------------------------------------- claims: the rotation, sequential use

\* C37: in sequential use of a pool of N >= 2 endpoints the i-th getNextClient returns
\* clients[i mod N] (the first selection is endpoint 1), any N selections in a row are
\* N different endpoints, and after every call the counter is in 0..N-1
C37_CyclicFromEndpointOne ==
    (newErr = "nil" /\ PoolSize >= 2) =>
        /\ \A i \in 1..Len(selections) : selections[i] = clients[i % PoolSize]
        /\ \A s \in 1..(Len(selections) - PoolSize + 1) :
               Cardinality({selections[s + j] : j \in 0..(PoolSize - 1)}) = PoolSize
        /\ (\A c \in DOMAIN sel : sel[c].pc # "added") => clientIndex \in 0..(PoolSize - 1)

\* three selections of a pool of two: endpoint 1, endpoint 0, endpoint 1 again
C37_Witness ==
    /\ newErr = "nil"
    /\ PoolSize = 2
    /\ selections = <<clients[1], clients[0], clients[1]>>
    /\ AllIdle
\* ------------------------------------------------- claims: GenerateStream and ctx

\* ctx.Err() as the caller sees it
CallerCtxErr == IF ctxErr = "DeadlineExceeded" THEN DeadlineExceeded ELSE Canceled

\* C32: GenerateStream called on a non-empty list with a context that is already done
\* starts no backend, sends nothing on resultCh or doneCh, invokes no callback, and
\* sends the context's error, and nothing else, on errCh before it returns
C32_CancelledBeforeCall ==
    (method = "GenerateStream" /\ cancelAt.pc = "idle" /\ N >= 1) =>
        /\ \A i \in 1..N : task[i] = "none"
        /\ events = <<>>
        /\ resultLog = <<>>
        /\ doneLog = 0
        /\ pc # "panicked"
        /\ errLog \in {<<>>, <<CallerCtxErr>>}
        /\ pc = "returned" => errLog = <<CallerCtxErr>>

\* a call made after the deadline had expired has returned
C32_Witness ==
    /\ method = "GenerateStream"
    /\ cancelAt.pc = "idle"
    /\ N >= 2
    /\ pc = "returned"
    /\ errLog = <<DeadlineExceeded>>
\* the error e is not a report of a context's end: neither the sentinel itself nor an
\* error that wraps it
NotCancellation(e) ==
    /\ e.kind \notin {"Canceled", "DeadlineExceeded"}
    /\ e.wraps \notin {"Canceled", "DeadlineExceeded"}

\* the "[CLEAR]" tokens sent so far
Clears == Len(SelectSeq(resultLog, LAMBDA t : t = CLEAR))

\* C31: when the caller's context ends while GenerateStream waits on attempt i (and a
\* callback is set), no report of that end is taken as a backend failure, no "[CLEAR]"
\* beyond those sent before attempt i is sent, and whatever errCh receives is the
\* context's error
C31_CancellationIsNotFailure ==
    (method = "GenerateStream" /\ cancelAt.pc = "wait" /\ errorCallback) =>
        /\ NotCancellation(lastErr)
        /\ Clears <= cancelAt.idx - 1
        /\ \A e \in 1..Len(errLog) : errLog[e] = CallerCtxErr
\* ------------------------------------------------- claims: images, continued

\* the image sources the caller supplied (those that are not nil), in order
Supplied == SelectSeq([k \in 1..Len(images) |-> k], LAMBDA k : images[k] # "nil")

\* C33: in GenerateWithImage and GenerateWithImages, once the input is accepted every
\* supplied image source has been read once, to its end, and that before any backend
\* is invoked and however many are; a call that returns the error of a read has
\* invoked no backend and no callback and left GetModel() as it was
C33_SourcesReadOnceUpFront ==
    method \in Buffering =>
        /\ InputAccepted =>
               /\ readLog = Supplied
               /\ \A k \in 1..Len(images) : srcPos[k] = Len(imageData[k])
        /\ (ret.set /\ "copyFailed" \in {ret.err.kind, ret.err.wraps}) =>
               /\ pc = "returned"
               /\ events = <<>>
               /\ received = <<>>
               /\ currentModel = modelBefore

\* two backends were invoked over one image of MaxBytes bytes, the first reading only
\* a part of its reader
C33_Witness ==
    /\ method = "GenerateWithImage"
    /\ images = <<"ok">>
    /\ Len(imageData[1]) = MaxBytes
    /\ Len(Invocations) = 2
    /\ received[1][1].read = 1
    /\ readLog = <<1>>
\* ------------------------------------------------- claims: the streaming task of Google

\* C36: the task of Google.GenerateStream delivers at most one terminal signal, has
\* ended when it has delivered one (so no token follows it), and, once its context is
\* done, is not blocked at a channel send, whether or not anybody receives
C36_TaskEndsOnCancel ==
    method = "Google.GenerateStream" =>
        /\ doneLog + Len(errLog) <= 1
        /\ doneLog + Len(errLog) = 1 => task[1] = "ended"
        /\ (GenCtxDone(1) /\ Running(1)) => ENABLED DirectTask

\* ------------------------------------------------- claims: the adapters and their images

\* the mime type a part of a request is of: the type it carries, which the two Google
\* adapters hand over with or without its "image/"
TypeOf(part) ==
    IF adapter \in {"Google", "GoogleSimpleLLM"}
    THEN <<"image/">> \o TrimPrefix(part.type, "image/")
    ELSE part.type

\* C35: GenerateWithImages of each of the four adapters, called with a prompt and with
\* n >= 1 images and as many mime types, builds a request whose image parts are the n
\* images in the order given, each with its own mime type
C35_AllImagesInOrder ==
    (adapter # "none" /\ adapterIn.prompt /\ Len(adapterIn.images) >= 1
        /\ Len(adapterIn.images) = Len(adapterIn.mimeTypes)) =>
        /\ request.err = "none"
        /\ Len(request.parts) = Len(adapterIn.images)
        /\ \A k \in 1..Len(request.parts) :
              /\ request.parts[k].data = adapterIn.images[k]
              /\ TypeOf(request.parts[k]) = adapterIn.mimeTypes[k]

\* ------------------------------------------------- claims: nesting

\* the list has a FallbackLLM among its elements
HasInner == \E i \in DOMAIN nestedLLMs : nestedLLMs[i].kind = "fallback"

\* C34: a FallbackLLM with FallbackLLMs in its list and the FallbackLLM over its leaf
\* backends both succeed or both fail, return the same response, invoke the same leaf
\* backends in the same order and report the same model; and an empty FallbackLLM in
\* the list, when the loop reaches it, answers with an error and invokes nothing
C34_NestingIsFlattening ==
    (HasInner /\ nestedRun.called /\ flatRun.called) =>
        /\ (nestedRun.err = Nil) <=> (flatRun.err = Nil)
        /\ nestedRun.response = flatRun.response
        /\ nestedRun.log = flatRun.log
        /\ nestedRun.model = flatRun.model
        /\ \A i \in DOMAIN nestedLLMs :
              (nestedLLMs[i] = Fallback(<<>>) /\ (\A k \in 1..(i - 1) : nestedLLMs[k].ok = FALSE
                      /\ \A j \in DOMAIN nestedLLMs[k].llms : ~nestedLLMs[k].llms[j].ok)) =>
                  /\ Len(nestedRun.errs) >= i
                  /\ nestedRun.errs[i] = AggregatedErr(Nil)
                  /\ nestedRun.errs[i] # Nil

\* an empty FallbackLLM, then one whose first backend fails and whose second answers:
\* both runs invoke the two leaf backends in list order and return the second's answer
C34_Witness ==
    /\ nestedRun.called /\ flatRun.called
    /\ Len(nestedLLMs) = 2
    /\ nestedLLMs[1] = Fallback(<<>>)
    /\ nestedLLMs[2] = Fallback(<<Leaf(LeafId(2, 1), FALSE), Leaf(LeafId(2, 2), TRUE)>>)
    /\ nestedRun.log = <<LeafId(2, 1), LeafId(2, 2)>>
    /\ nestedRun.errs = <<AggregatedErr(Nil)>>
    /\ nestedRun.response = LeafId(2, 2)
    /\ flatRun.err = Nil

====
